---- MODULE Spec2Model ----
(***************************************************************************)
(* Model of the chat endpoint of backend/main.py: the conversation memory, *)
(* the ranking pass of chat(), the four dispatch paths and the response    *)
(* generators stream_response, stream_case3_response and                   *)
(* stream_general_response.                                                *)
(*                                                                         *)
(* Text is a sequence of one-character strings, so that lower(), split()   *)
(* and the substring test `word in text` are computed as Python computes   *)
(* them.  Scores are fixed-point numbers in hundredths (0.30 is 30); the   *)
(* embeddings of the model have integer norms, so every cosine is exact.   *)
(* The IEEE value NaN that numpy returns for 0/0 is the value NaN.         *)
(***************************************************************************)
EXTENDS Integers, Sequences, FiniteSets, TLC

VARIABLES conversation_memory, rows, groq_client, req, served, connections,
          scraper, add_qa

vars == <<conversation_memory, rows, groq_client, req, served, connections,
          scraper, add_qa>>

----------------------------------------------------------------------------
(* Bounds of the model *)

\* requests served in one run of Spec, of SpecRank and of SpecHist
MaxRequests == 2

MaxRankRequests == 2

MaxHistRequests == 2

\* chunks one generator call yields before it ends or fails
MaxChunks == 2

MaxRankChunks == 1

MaxHistChunks == 1

\* requests served in one run of SpecIso, and chunks per generator call
MaxIsoRequests == 2

MaxIsoChunks == 1

\* requests served in one run of SpecLoop, and chunks per generator call
MaxLoopRequests == 2

MaxLoopChunks == 1

\* requests served in one run of SpecClean, chunks per generator call, and
\* the length of an article's content
MaxCleanRequests == 2

MaxCleanChunks == 1

MaxContentLen == 3

\* request slots; the handlers of one slot follow each other
Reqs == {1}

----------------------------------------------------------------------------
(* Program constants *)

HISTORY_MAXLEN == 5

THRESHOLD == 30

KEYWORD_BOOST == 10

TOP_K == 1

FIRST_TOKENS == 10

ANSWER_CONTEXT_CHARS == 200

\* art["content"][:1500]
ARTICLE_CHARS == 1500

\* similarity_ratio > 0.3, as the fraction RATIO_NUM / RATIO_DEN
RATIO_NUM == 3

RATIO_DEN == 10

\* a score is a number of hundredths, or numpy's nan
NaN == [nan |-> TRUE, v |-> 0]

Num(x) == [nan |-> FALSE, v |-> x]

----------------------------------------------------------------------------
(* Text: str.lower, str.split, str.strip, " ".join, `in` *)

Whitespace == {" ", "\n"}

LowerChar(c) ==
  CASE c = "A" -> "a"
    [] c = "B" -> "b"
    [] c = "E" -> "e"
    [] c = "C" -> "c"
    [] c = "F" -> "f"
    [] c = "N" -> "n"
    [] c = "R" -> "r"
    [] c = "S" -> "s"
    [] OTHER -> c

lower(s) == [i \in 1..Len(s) |-> LowerChar(s[i])]

RECURSIVE SplitFrom(_, _, _)
\* str.split() with no argument: the maximal runs of non-whitespace characters
SplitFrom(s, i, cur) ==
  IF i > Len(s) THEN (IF cur = <<>> THEN <<>> ELSE <<cur>>)
  ELSE IF s[i] \in Whitespace
       THEN (IF cur = <<>> THEN <<>> ELSE <<cur>>) \o SplitFrom(s, i + 1, <<>>)
       ELSE SplitFrom(s, i + 1, Append(cur, s[i]))

split(s) == SplitFrom(s, 1, <<>>)

RECURSIVE JoinSpace(_)
\* " ".join(tokens)
JoinSpace(toks) ==
  IF toks = <<>> THEN <<>>
  ELSE IF Len(toks) = 1 THEN toks[1]
  ELSE toks[1] \o <<" ">> \o JoinSpace(Tail(toks))

\* chunk.strip() is truthy
StripNonEmpty(s) == \E i \in 1..Len(s) : s[i] \notin Whitespace

\* Python's `word in text` on strings: word is a contiguous substring of text
Contains(text, word) ==
  \E i \in 0..(Len(text) - Len(word)) :
    \A j \in 1..Len(word) : text[i + j] = word[j]

\* s[:n]
Prefix(s, n) == SubSeq(s, 1, IF Len(s) < n THEN Len(s) ELSE n)

ToSet(seq) == {seq[i] : i \in 1..Len(seq)}

----------------------------------------------------------------------------
(* clean_context: three re.sub calls and str.strip, computed as the regular *)
(* expression engine computes them: the leftmost match, greedy, the search  *)
(* resumed behind each match                                                *)

\* \d
Digits == {"0", "1", "2"}

\* the character class of the bullet symbols: the hyphen-minus here, with
\* the bullet, the en dash and the small black square of the source
BulletSymbols == {"-"}

\* "Reference" of the pattern References?, compared without regard to case
REFERENCE == <<"r", "e", "f", "e", "r", "e", "n", "c", "e">>

RECURSIVE SkipWhile(_, _, _)
\* the first position from i on whose character is not in class (greedy *)
SkipWhile(s, i, class) ==
  IF i <= Len(s) /\ s[i] \in class THEN SkipWhile(s, i + 1, class) ELSE i

\* a match of \n?\s*\d+[\.]\)\s* that starts at i: the position behind it,
\* 0 when there is none (\n is itself whitespace, so \n?\s* is a run of
\* whitespace)
NumberedMatchEnd(s, i) ==
  LET j == SkipWhile(s, i, Whitespace)
      k == SkipWhile(s, j, Digits)
  IN  IF k > j /\ k + 1 <= Len(s) /\ s[k] = "." /\ s[k + 1] = ")"
      THEN SkipWhile(s, k + 2, Whitespace)
      ELSE 0

RECURSIVE SubNumbered(_, _)
\* re.sub(r"\n?\s*\d+[\.]\)\s*", " ", text), from position i on
SubNumbered(s, i) ==
  IF i > Len(s) THEN <<>>
  ELSE IF NumberedMatchEnd(s, i) # 0
       THEN <<" ">> \o SubNumbered(s, NumberedMatchEnd(s, i))
       ELSE <<s[i]>> \o SubNumbered(s, i + 1)

\* re.sub(r"[bullet symbols]", " ", text)
SubBullets(s) ==
  [i \in 1..Len(s) |-> IF s[i] \in BulletSymbols THEN " " ELSE s[i]]

\* a match of \n\s*References?\s*:\s*$ (MULTILINE, IGNORECASE) that starts
\* at i: the position behind it, 0 when there is none; the last \s* gives
\* back whitespace until $ holds, at the end of the text or in front of \n
ReferencesMatchEnd(s, i) ==
  IF s[i] # "\n" THEN 0
  ELSE
    LET j == SkipWhile(s, i + 1, Whitespace)
        k == j + Len(REFERENCE)
    IN  IF k - 1 > Len(s) \/ lower(SubSeq(s, j, k - 1)) # REFERENCE THEN 0
        ELSE
          LET k2 == IF k <= Len(s) /\ LowerChar(s[k]) = "s" THEN k + 1 ELSE k
              m  == SkipWhile(s, k2, Whitespace)
          IN  IF m > Len(s) \/ s[m] # ":" THEN 0
              ELSE
                LET n == SkipWhile(s, m + 1, Whitespace)
                    ends == {p \in (m + 1)..n : p = Len(s) + 1 \/ s[p] = "\n"}
                IN  IF ends = {} THEN 0
                    ELSE CHOOSE p \in ends : \A q \in ends : q <= p

RECURSIVE SubReferences(_, _)
\* re.sub(r"\n\s*References?\s*:\s*$", "", text, flags=...), from i on
SubReferences(s, i) ==
  IF i > Len(s) THEN <<>>
  ELSE IF ReferencesMatchEnd(s, i) # 0
       THEN SubReferences(s, ReferencesMatchEnd(s, i))
       ELSE <<s[i]>> \o SubReferences(s, i + 1)

RECURSIVE strip(_)
\* str.strip(): the text without its leading and trailing whitespace
strip(s) ==
  IF s = <<>> THEN s
  ELSE IF s[1] \in Whitespace THEN strip(Tail(s))
  ELSE IF s[Len(s)] \in Whitespace THEN strip(SubSeq(s, 1, Len(s) - 1))
  ELSE s

\* clean_context(text)
clean_context(text) ==
  strip(SubReferences(SubBullets(SubNumbered(text, 1)), 1))

RECURSIVE JoinBlank(_)
\* "\n\n".join(context_parts)
JoinBlank(parts) ==
  IF parts = <<>> THEN <<>>
  ELSE IF Len(parts) = 1 THEN parts[1]
  ELSE parts[1] \o <<"\n", "\n">> \o JoinBlank(Tail(parts))

----------------------------------------------------------------------------
(* Vectors and the cosine score *)

Dot(a, b) == a[1] * b[1] + a[2] * b[2] + a[3] * b[3] + a[4] * b[4]

\* the integer square root; exact on the perfect squares the model uses
ISqrt(n) == CHOOSE k \in 0..n : k * k <= n /\ (k + 1) * (k + 1) > n

Norm(a) == ISqrt(Dot(a, a))

\* np.dot(a, b) / (np.linalg.norm(a) * np.linalg.norm(b)); numpy returns nan
\* (with a warning, not an exception) when the denominator is 0
cosine(a, b) ==
  IF Norm(a) * Norm(b) = 0 THEN NaN
  ELSE Num((100 * Dot(a, b)) \div (Norm(a) * Norm(b)))

\* score += 0.1: nan stays nan
AddBoost(score) == IF score.nan THEN NaN ELSE Num(score.v + KEYWORD_BOOST)

\* written as "not score <= 0.30": nan passes
NotAtMostThreshold(score) == score.nan \/ score.v > THRESHOLD

\* score >= 0.30
AtLeastThreshold(score) == ~score.nan /\ score.v >= THRESHOLD

\* score > 0.30: every comparison with nan is False
AboveThreshold(score) == ~score.nan /\ score.v > THRESHOLD

\* the stored embedding text is a Python literal of a list (literal is TRUE,
\* value is the list) or it is not; on the latter ast.literal_eval raises
LiteralEvalRaises(embedding) == ~embedding.literal

\* any(word in r["title"].lower() for word in q.question.lower().split())
TitleMatches(title, question) ==
  \E w \in ToSet(split(lower(question))) : Contains(lower(title), w)

\* the boost added once for every question token the title holds
RowScorePerToken(query_emb, r, question) ==
  LET score == cosine(query_emb, r.embedding.value)
      words == split(lower(question))
      hits == {i \in 1..Len(words) : Contains(lower(r.title), words[i])}
  IN  IF score.nan THEN NaN ELSE Num(score.v + KEYWORD_BOOST * Cardinality(hits))

\* the score chat() gives one row: cosine, then the keyword boost
RowScore(query_emb, r, question) ==
  LET score == cosine(query_emb, r.embedding.value)
  IN  IF TitleMatches(r.title, question) THEN AddBoost(score) ELSE score

RECURSIVE ScoreRowsThresholdFirst(_, _, _)
\* the threshold tested on the cosine, the boost added to what passed
ScoreRowsThresholdFirst(rs, query_emb, question) ==
  IF rs = <<>> THEN [raised |-> FALSE, scored |-> <<>>]
  ELSE IF LiteralEvalRaises(rs[1].embedding) THEN [raised |-> TRUE, scored |-> <<>>]
  ELSE LET cos  == cosine(query_emb, rs[1].embedding.value)
           rest == ScoreRowsThresholdFirst(Tail(rs), query_emb, question)
       IN  IF rest.raised THEN rest
           ELSE IF AboveThreshold(cos)
                THEN [raised |-> FALSE,
                      scored |-> <<[score |-> RowScore(query_emb, rs[1], question),
                                    row |-> rs[1]]>> \o rest.scored]
                ELSE rest

RECURSIVE ScoreRows(_, _, _)
\* the scoring loop: raised is TRUE when a row's embedding could not be
\* evaluated (the exception leaves the loop and the handler); scored holds
\* (score, row) for the rows above the threshold, in row order
ScoreRows(rs, query_emb, question) ==
  IF rs = <<>> THEN [raised |-> FALSE, scored |-> <<>>]
  ELSE IF LiteralEvalRaises(rs[1].embedding) THEN [raised |-> TRUE, scored |-> <<>>]
  ELSE LET score == RowScore(query_emb, rs[1], question)
           rest  == ScoreRows(Tail(rs), query_emb, question)
       IN  IF rest.raised THEN rest
           ELSE IF AboveThreshold(score)
                THEN [raised |-> FALSE,
                      scored |-> <<[score |-> score, row |-> rs[1]]>> \o rest.scored]
                ELSE rest

\* a < b on floats: False when either is nan
Less(a, b) == ~a.nan /\ ~b.nan /\ a.v < b.v

RECURSIVE InsertDescLastWins(_, _)
\* x goes in front of the elements with an equal score: the last seen wins
InsertDescLastWins(sorted, x) ==
  IF sorted = <<>> THEN <<x>>
  ELSE IF ~Less(x.score, sorted[1].score)
       THEN <<x>> \o sorted
       ELSE <<sorted[1]>> \o InsertDescLastWins(Tail(sorted), x)

RECURSIVE InsertDesc(_, _)
\* x goes in front of the first element with a smaller score, so behind every
\* earlier element with an equal score: a stable descending sort
InsertDesc(sorted, x) ==
  IF sorted = <<>> THEN <<x>>
  ELSE IF Less(sorted[1].score, x.score)
       THEN <<x>> \o sorted
       ELSE <<sorted[1]>> \o InsertDesc(Tail(sorted), x)

RECURSIVE SortDesc(_)
\* sorted(scored, key=lambda x: x[0], reverse=True): descending and stable
SortDesc(scored) ==
  IF scored = <<>> THEN <<>>
  ELSE InsertDesc(SortDesc(SubSeq(scored, 1, Len(scored) - 1)), scored[Len(scored)])

\* sorted(...)[:1]
Rank(scored) == Prefix(SortDesc(scored), TOP_K)

----------------------------------------------------------------------------
(* Inputs: questions, generator chunks, query embeddings, article tables *)

Q_AB == <<"A", " ", "b">>

Q_LONG ==
  <<"x", " ", "x", " ", "x", " ", "x", " ", "x", " ", "x", " ", "x", " ",
    "x", " ", "x", " ", "x", " ", "a", " ", "b">>

Q_XA == <<"x", "a">>

Questions == {Q_AB, Q_LONG, Q_XA}

CH_C == <<"c">>

CH_BLANK == <<" ">>

CH_BA == <<" ", "B", " ", " ", "a">>

Chunks == {CH_C, CH_BLANK, CH_BA}

E1 == <<10, 0, 0, 0>>

NEG == <<-10, 0, 0, 0>>

ZERO == <<0, 0, 0, 0>>

QueryEmbeddings == {E1, NEG, ZERO}

Literal(v) == [literal |-> TRUE, value |-> v]

Malformed == [literal |-> FALSE, value |-> ZERO]

T_Z == <<"Z">>

\* the content of an article with nothing to clean
PLAIN == <<"a">>

T_AB == <<"A", "b">>

T_A == <<"a">>

\* cosine with E1: 1.00, 0.80, 0.30, 0.20, nan
R_100 == [title |-> T_Z, url |-> "u100", embedding |-> Literal(<<10, 0, 0, 0>>),
  content |-> PLAIN]

R_80 == [title |-> T_AB, url |-> "u80", embedding |-> Literal(<<8, 6, 0, 0>>),
  content |-> PLAIN]

R_30 == [title |-> T_Z, url |-> "u30", embedding |-> Literal(<<3, 1, 3, 9>>),
  content |-> PLAIN]

R_20 == [title |-> T_AB, url |-> "u20", embedding |-> Literal(<<2, 4, 4, 8>>),
  content |-> PLAIN]

\* cosine 0.30 with E1, and a title the question "A b" matches
R_30B == [title |-> T_AB, url |-> "u30b", embedding |-> Literal(<<3, 1, 3, 9>>),
  content |-> PLAIN]

\* the embedding of R_30 and R_30B under a third title
R_30A == [title |-> T_A, url |-> "u30a", embedding |-> Literal(<<3, 1, 3, 9>>),
  content |-> PLAIN]

\* cosine 0.90 with E1, the boosted score of R_80 for the question "A b"
R_90 == [title |-> T_Z, url |-> "u90", embedding |-> Literal(<<9, 3, 3, 1>>),
  content |-> PLAIN]

R_ZERO == [title |-> T_AB, url |-> "u0", embedding |-> Literal(ZERO),
  content |-> PLAIN]

R_BAD == [title |-> T_Z, url |-> "ubad", embedding |-> Malformed,
  content |-> PLAIN]

Tables ==
  { <<>>,
    <<R_30, R_20, R_80, R_100>>,
    <<R_ZERO, R_80>>,
    <<R_BAD, R_100>>,
    <<R_30, R_20>>,
    <<R_30, R_30B, R_30A>>,
    <<R_80, R_90>> }

----------------------------------------------------------------------------
(* Fixed texts of the responses *)

BANNER == "Answer With AI:\n\n"

REFERENCES_HEADER == "\n\nReferences:\n"

\* general_answer of Case 4, no history
GENERAL_ANSWER_NO_HISTORY ==
  "I don't have reliable information about this specific topic in the available content. Could you please provide more details or rephrase your question? Alternatively, you might want to ask about related topics like general health principles, wellness practices, or preventive care approaches."

\* a reworded refusal for the different-topic case
GENERAL_ANSWER_REWORDED ==
  "I don't have reliable information about this new topic in the available content."

\* general_answer of Case 4, different topic
GENERAL_ANSWER_NEW_TOPIC ==
  "I don't have reliable information about this specific topic in the available content. Could you please provide more details or rephrase your question? Alternatively, you might want to ask about related topics like general health principles, wellness practices, or preventive care approaches."

\* "[LLM ERROR]: <class> - <message>", shortened to two tokens
LLM_ERROR == <<"[", "E", "]", " ", "m">>

\* the error chunk of the _direct generator functions starts with a newline
LLM_ERROR_DIRECT == <<"\n">> \o LLM_ERROR

\* "[PARSING ERROR]: <message>"
PARSING_ERROR == <<"[", "P", "]", " ", "m">>

\* "[LLM ERROR]: No response received. ..."
NO_RESPONSE_ERROR == <<"[", "E", "]", " ", "n">>

ErrorMarkers == {LLM_ERROR, LLM_ERROR_DIRECT, PARSING_ERROR, NO_RESPONSE_ERROR}

Ev(kind, lit, text, n) == [kind |-> kind, lit |-> lit, text |-> text, n |-> n]

----------------------------------------------------------------------------
(* Conversation memory *)

\* every lookup stores a new deque under the id
get_conversation_history_fresh(mem, conversation_id) ==
  (conversation_id :> <<>>) @@ mem

\* the dictionary after get_conversation_history(conversation_id)
get_conversation_history(mem, conversation_id) ==
  IF conversation_id \in DOMAIN mem THEN mem
  ELSE (conversation_id :> <<>>) @@ mem

\* a list instead of the bounded deque: nothing is ever dropped
DequeAppendUnbounded(history, x) == Append(history, x)

\* deque(maxlen=5).append(x): a full deque drops its leftmost element
DequeAppend(history, x) ==
  IF Len(history) >= HISTORY_MAXLEN
  THEN Append(Tail(history), x)
  ELSE Append(history, x)

\* one history shared by all ids: the turn is appended to every history
add_to_every_history(mem, conversation_id, question, answer) ==
  LET m == get_conversation_history(mem, conversation_id)
  IN  [id \in DOMAIN m |->
         DequeAppend(m[id], [question |-> question, answer |-> answer])]

\* the dictionary after add_to_conversation_history(conversation_id, q, a)
add_to_conversation_history(mem, conversation_id, question, answer) ==
  LET m == get_conversation_history(mem, conversation_id)
  IN  [m EXCEPT ![conversation_id] =
         DequeAppend(@, [question |-> question, answer |-> answer])]

\* clean_answer = " ".join(full_answer.split())
CleanAnswer(full_answer) == JoinSpace(split(full_answer))

----------------------------------------------------------------------------
(* Topic continuity of the no-match branch *)

\* combined_context = f"{last_question} {last_answer}", both lowercased
CombinedContext(last) == lower(last.question) \o <<" ">> \o lower(last.answer)

\* total_unique counts a keyword of both sets twice
KeywordOverlapOverSum(last, question) ==
  LET conversation_keywords == ToSet(split(CombinedContext(last)))
      current_keywords == ToSet(split(lower(question)))
  IN  [overlap |-> Cardinality(conversation_keywords \cap current_keywords),
       total_unique |-> Cardinality(conversation_keywords)
                          + Cardinality(current_keywords)]

\* overlap and total_unique of the two keyword sets
KeywordOverlap(last, question) ==
  LET conversation_keywords == ToSet(split(CombinedContext(last)))
      current_keywords == ToSet(split(lower(question)))
  IN  [overlap |-> Cardinality(conversation_keywords \cap current_keywords),
       total_unique |-> Cardinality(conversation_keywords \cup current_keywords)]

\* similarity_ratio = overlap / total_unique if total_unique > 0 else 0: the
\* quotient as a fraction, 0 being 0/1
similarity_ratio(last, question) ==
  LET k == KeywordOverlap(last, question)
  IN  IF k.total_unique > 0
      THEN [num |-> k.overlap, den |-> k.total_unique]
      ELSE [num |-> 0, den |-> 1]

\* similarity_ratio > 0.3
SimilarityAbove(last, question) ==
  LET ratio == similarity_ratio(last, question)
  IN  ratio.num * RATIO_DEN > RATIO_NUM * ratio.den

\* the first words are looked up among the question's words, not in its text
FirstWordsAreKeywords(last, question) ==
  LET words == Prefix(split(CombinedContext(last)), FIRST_TOKENS)
  IN  \E i \in 1..Len(words) : words[i] \in ToSet(split(lower(question)))

\* any(word in question_lower for word in combined_context.split()[:10])
FirstWordsOccur(last, question) ==
  LET words == Prefix(split(CombinedContext(last)), FIRST_TOKENS)
  IN  \E i \in 1..Len(words) : Contains(lower(question), words[i])

TopicContinues(last, question) ==
  SimilarityAbove(last, question) \/ FirstWordsOccur(last, question)

----------------------------------------------------------------------------
(* Requests *)

\* similarity_ratio of a request that did not reach the Case 3 test
NotComputed == [num |-> 0, den |-> 0]

IdleRequest ==
  [pc |-> "idle", id |-> "", question |-> <<>>, query_emb |-> ZERO,
   path |-> "NONE", failure |-> "", scored |-> <<>>, references |-> <<>>,
   prompt |-> [kind |-> "none", history |-> <<>>, articles |-> <<>>,
               context |-> <<>>,
               last_question |-> <<>>, last_answer |-> <<>>, question |-> <<>>],
   general_answer |-> "", llm |-> "unopened", llm_calls |-> 0,
   received_response |-> FALSE, produced |-> <<>>, full_answer |-> <<>>, out |-> <<>>, ref_i |-> 0,
   commits |-> 0, similarity_ratio |-> NotComputed, history_context |-> <<>>]

\* context: the cleaned first 1500 characters of every matched article,
\* joined by blank lines
Context(scored) ==
  JoinBlank([i \in 1..Len(scored) |->
               clean_context(Prefix(scored[i].row.content, ARTICLE_CHARS))])

\* the prompt of the match path: history_context, context, question
ArticlePrompt(history, scored, question) ==
  [kind |-> "articles", history |-> history,
   articles |-> [i \in 1..Len(scored) |-> scored[i].row.url],
   context |-> Context(scored),
   last_question |-> <<>>, last_answer |-> <<>>, question |-> question]

\* llm_prompt of Case 3: the last question, last_answer[:200], the question
Case3Prompt(last, question) ==
  [kind |-> "last_turn", history |-> <<>>, articles |-> <<>>,
   context |-> <<>>,
   last_question |-> lower(last.question),
   last_answer |-> Prefix(lower(last.answer), ANSWER_CONTEXT_CHARS),
   question |-> question]

\* the history is tested before the ranking result
DispatchHistoryFirst(scored, history, question) ==
  IF history = <<>>
  THEN IF scored # <<>> THEN "MATCH_FOUND" ELSE "NO_HISTORY_NO_MATCH"
  ELSE IF TopicContinues(history[Len(history)], question)
       THEN "HISTORY_NO_MATCH_CONTINUING"
       ELSE IF scored # <<>> THEN "MATCH_FOUND"
       ELSE "HISTORY_NO_MATCH_NEW_TOPIC"

\* the path chat() takes once ranking is done
Dispatch(scored, history, question) ==
  IF scored # <<>> THEN "MATCH_FOUND"
  ELSE IF history = <<>> THEN "NO_HISTORY_NO_MATCH"
  ELSE IF TopicContinues(history[Len(history)], question)
       THEN "HISTORY_NO_MATCH_CONTINUING"
       ELSE "HISTORY_NO_MATCH_NEW_TOPIC"

\* scrape_and_embed.py before one of its scraping functions is called
IdleScraper ==
  [pc |-> "idle", fn |-> "none", page_url |-> "", to_scrape |-> <<>>,
   visited |-> <<>>, articles |-> <<>>, runs |-> 0]

\* add_qa_railway.py before it is run
IdleAddQa == [pc |-> "idle", runs |-> 0]

InitOver(memories, tables, clients) ==
  /\ conversation_memory \in memories
  /\ rows \in tables
  /\ groq_client \in clients
  /\ req = [r \in Reqs |-> IdleRequest]
  /\ served = 0
  /\ connections = 0
  /\ scraper = IdleScraper
  /\ add_qa = IdleAddQa

Free(r) == req[r].pc \in {"idle", "done", "failed"}

\* the connections open once the database step raised: get_connection raised
\* and opened none, or cur.execute raised on the connection just opened
ConnectionsAfterRaise(where) ==
  IF where = "db" THEN {connections, connections + 1} ELSE {connections}

\* chat(): embed_model.encode or get_connection/execute raises; the handler
\* has created the id's history and the exception leaves it (HTTP 500)
chat_raises(r, conversation_id, question, where, cap) ==
  /\ Free(r)
  /\ served < cap
  /\ served' = served + 1
  /\ connections' \in ConnectionsAfterRaise(where)
  /\ conversation_memory' =
       get_conversation_history(conversation_memory, conversation_id)
  /\ req' = [req EXCEPT ![r] =
       [IdleRequest EXCEPT !.pc = "failed", !.id = conversation_id,
                           !.question = question, !.failure = where]]
  /\ UNCHANGED <<rows, groq_client, scraper, add_qa>>

\* chat(), from the scoring loop to its return: the request as the handler
\* leaves it, with the StreamingResponse it returns still to be iterated.
\* history_context holds the turns the handler read at its entry; history is
\* the deque as it is when the handler tests and indexes it
chat_dispatch(history_context, history, conversation_id, question, query_emb) ==
  LET result == ScoreRows(rows, query_emb, question)
      scored == Rank(result.scored)
      path == Dispatch(scored, history, question)
      base == [IdleRequest EXCEPT !.id = conversation_id,
                                  !.question = question,
                                  !.query_emb = query_emb,
                                  !.history_context = history_context]
  IN  IF result.raised
      THEN [base EXCEPT !.pc = "failed", !.failure = "score"]
      ELSE IF path = "MATCH_FOUND"
      THEN [base EXCEPT
              !.pc = "banner", !.path = path, !.scored = scored,
              !.references = [i \in 1..Len(scored) |->
                                [title |-> scored[i].row.title,
                                 url |-> scored[i].row.url]],
              !.prompt = ArticlePrompt(history_context, scored, question)]
      ELSE IF path = "HISTORY_NO_MATCH_CONTINUING"
      THEN [base EXCEPT
              !.pc = "banner", !.path = path,
              !.similarity_ratio =
                 similarity_ratio(history[Len(history)], question),
              !.prompt = Case3Prompt(history[Len(history)], question)]
      ELSE IF path = "NO_HISTORY_NO_MATCH"
      THEN [base EXCEPT !.pc = "general", !.path = path,
                        !.general_answer = GENERAL_ANSWER_NO_HISTORY]
      ELSE [base EXCEPT !.pc = "general", !.path = path,
                        !.similarity_ratio =
                           similarity_ratio(history[Len(history)], question),
                        !.general_answer = GENERAL_ANSWER_NEW_TOPIC]

\* chat() run with nothing in between: the deque holds at its dispatch the
\* turns it held at its entry
chat_returns(mem, conversation_id, question, query_emb) ==
  chat_dispatch(mem[conversation_id], mem[conversation_id], conversation_id,
                question, query_emb)

\* chat(): the handler up to the StreamingResponse it returns
chat(r, conversation_id, question, query_emb, cap) ==
  /\ Free(r)
  /\ served < cap
  /\ served' = served + 1
  /\ connections' = connections + 1
  /\ LET mem == get_conversation_history(conversation_memory, conversation_id)
     IN  /\ conversation_memory' = mem
         /\ req' = [req EXCEPT ![r] =
              chat_returns(mem, conversation_id, question, query_emb)]
  /\ UNCHANGED <<rows, groq_client, scraper, add_qa>>

----------------------------------------------------------------------------
(* The response generators.  Every action is one resumption of the         *)
(* generator the StreamingResponse iterates: from one yield to the next.   *)

\* the refusal is saved as a turn of the conversation
stream_general_response_saving(r) ==
  /\ req[r].pc = "general"
  /\ conversation_memory' =
       add_to_conversation_history(conversation_memory, req[r].id,
                                   req[r].question, <<"r">>)
  /\ req' = [req EXCEPT ![r].pc = "done",
                        ![r].out = Append(@, Ev("general", req[r].general_answer, <<>>, 0))]
  /\ UNCHANGED <<rows, groq_client, served, connections, scraper, add_qa>>

\* stream_general_response: yields general_answer and ends
stream_general_response(r) ==
  /\ req[r].pc = "general"
  /\ req' = [req EXCEPT ![r].pc = "done",
                        ![r].out = Append(@, Ev("general", req[r].general_answer, <<>>, 0))]
  /\ UNCHANGED <<conversation_memory, rows, groq_client, served, connections,
               scraper, add_qa>>

\* stream_response / stream_case3_response: yield "Answer With AI:\n\n"
stream_prefix(r) ==
  /\ req[r].pc = "banner"
  /\ req' = [req EXCEPT ![r].pc = "llm", ![r].llm = "open",
                        ![r].out = Append(@, Ev("banner", BANNER, <<>>, 0))]
  /\ UNCHANGED <<conversation_memory, rows, groq_client, served, connections,
               scraper, add_qa>>

\* llm_function is call_llama2_stream: the match path without a Groq client
UsesLlama2Stream(rq) == rq.path = "MATCH_FOUND" /\ ~groq_client

\* the loop body of the response generator on a chunk the generator function
\* yielded: if chunk.strip(): full_answer += chunk; yield chunk
Deliver(rq, chunk) ==
  IF StripNonEmpty(chunk)
  THEN [rq EXCEPT !.llm_calls = 1,
                  !.produced = Append(@, chunk),
                  !.full_answer = @ \o chunk,
                  !.out = Append(@, Ev("chunk", "", chunk, 0))]
  ELSE [rq EXCEPT !.llm_calls = 1, !.produced = Append(@, chunk)]

\* the generator function yields the next chunk of generated text
llm_chunk(r, chunk, max_chunks) ==
  /\ req[r].pc = "llm"
  /\ req[r].llm = "open"
  /\ Len(req[r].produced) < max_chunks
  /\ req' = [req EXCEPT ![r] =
       [Deliver(req[r], chunk) EXCEPT !.received_response = TRUE]]
  /\ UNCHANGED <<conversation_memory, rows, groq_client, served, connections,
               scraper, add_qa>>

\* the error chunk of the generator function the path uses
ErrorChunk(rq) ==
  IF rq.path = "MATCH_FOUND" THEN LLM_ERROR ELSE LLM_ERROR_DIRECT

\* the connection fails or times out (or anything else raises): the generator
\* function's except clause yields one error chunk, and the function ends
llm_error(r) ==
  /\ req[r].pc = "llm"
  /\ req[r].llm = "open"
  /\ req' = [req EXCEPT ![r] =
       [Deliver(req[r], ErrorChunk(req[r])) EXCEPT !.llm = "closed"]]
  /\ UNCHANGED <<conversation_memory, rows, groq_client, served, connections,
               scraper, add_qa>>

\* call_llama2_stream: a line whose handling raises yields "[PARSING ERROR]"
\* and leaves the loop
llm_parsing_error(r) ==
  /\ req[r].pc = "llm"
  /\ req[r].llm = "open"
  /\ UsesLlama2Stream(req[r])
  /\ req' = [req EXCEPT ![r] =
       [Deliver(req[r], PARSING_ERROR) EXCEPT !.llm = "broke"]]
  /\ UNCHANGED <<conversation_memory, rows, groq_client, served, connections,
               scraper, add_qa>>

\* call_llama2_stream: the loop is over and nothing was received
llm_no_response(r) ==
  /\ req[r].pc = "llm"
  /\ req[r].llm \in {"open", "broke"}
  /\ UsesLlama2Stream(req[r])
  /\ ~req[r].received_response
  /\ req' = [req EXCEPT ![r] =
       [Deliver(req[r], NO_RESPONSE_ERROR) EXCEPT !.llm = "closed"]]
  /\ UNCHANGED <<conversation_memory, rows, groq_client, served, connections,
               scraper, add_qa>>

\* the generator function has no further chunk
LlmExhausted(rq) ==
  \/ rq.llm = "closed"
  \/ /\ rq.llm \in {"open", "broke"}
     /\ UsesLlama2Stream(rq) => rq.received_response

\* stream_response: the loop over the chunks is over; yield "\n\nReferences:\n"
stream_response_references(r) ==
  /\ req[r].pc = "llm"
  /\ req[r].path = "MATCH_FOUND"
  /\ LlmExhausted(req[r])
  /\ req' = [req EXCEPT ![r].pc = "refs", ![r].llm_calls = 1, ![r].ref_i = 1,
                        ![r].out = Append(@, Ev("references", REFERENCES_HEADER, <<>>, 0))]
  /\ UNCHANGED <<conversation_memory, rows, groq_client, served, connections,
               scraper, add_qa>>

\* the title line is yielded twice
stream_response_title_twice(r) ==
  /\ req[r].pc = "refs"
  /\ req[r].ref_i <= Len(req[r].references)
  /\ LET line == Ev("title", "", req[r].references[req[r].ref_i].title, req[r].ref_i)
     IN  req' = [req EXCEPT ![r].ref_i = @ + 1,
                            ![r].out = Append(Append(@, line), line)]
  /\ UNCHANGED <<conversation_memory, rows, groq_client, served, connections,
               scraper, add_qa>>

\* stream_response: yield f"{i}. {ref['title']}\n"
stream_response_title(r) ==
  /\ req[r].pc = "refs"
  /\ req[r].ref_i <= Len(req[r].references)
  /\ req' = [req EXCEPT ![r].ref_i = @ + 1,
                        ![r].out = Append(@, Ev("title", "", req[r].references[req[r].ref_i].title,
                                                req[r].ref_i))]
  /\ UNCHANGED <<conversation_memory, rows, groq_client, served, connections,
               scraper, add_qa>>

\* the save moved in front of the loop over the references
stream_response_save_early(r) ==
  /\ req[r].pc = "refs"
  /\ req[r].ref_i <= Len(req[r].references)
  /\ req[r].commits = 0
  /\ conversation_memory' =
       add_to_conversation_history(conversation_memory, req[r].id,
                                   req[r].question, CleanAnswer(req[r].full_answer))
  /\ req' = [req EXCEPT ![r].commits = @ + 1]
  /\ UNCHANGED <<rows, groq_client, served, connections, scraper, add_qa>>

\* stream_response: after the last title, save the conversation and end
stream_response_save(r) ==
  /\ req[r].pc = "refs"
  /\ req[r].ref_i > Len(req[r].references)
  /\ conversation_memory' =
       add_to_conversation_history(conversation_memory, req[r].id,
                                   req[r].question, CleanAnswer(req[r].full_answer))
  /\ req' = [req EXCEPT ![r].pc = "done", ![r].commits = @ + 1]
  /\ UNCHANGED <<rows, groq_client, served, connections, scraper, add_qa>>

\* stream_case3_response: the loop over the chunks is over; save and end
stream_case3_save(r) ==
  /\ req[r].pc = "llm"
  /\ req[r].path = "HISTORY_NO_MATCH_CONTINUING"
  /\ LlmExhausted(req[r])
  /\ conversation_memory' =
       add_to_conversation_history(conversation_memory, req[r].id,
                                   req[r].question, CleanAnswer(req[r].full_answer))
  /\ req' = [req EXCEPT ![r].pc = "done", ![r].llm_calls = 1, ![r].commits = @ + 1]
  /\ UNCHANGED <<rows, groq_client, served, connections, scraper, add_qa>>

----------------------------------------------------------------------------
(* Specifications *)

Failures == {"embed", "db"}

NextOver(R, I, Q, E, C, cap, max_chunks) ==
  \E r \in R :
    \/ \E i \in I, q \in Q, w \in Failures : chat_raises(r, i, q, w, cap)
    \/ \E i \in I, q \in Q, e \in E : chat(r, i, q, e, cap)
    \/ stream_general_response(r)
    \/ stream_prefix(r)
    \/ \E c \in C : llm_chunk(r, c, max_chunks)
    \/ llm_error(r)
    \/ llm_parsing_error(r)
    \/ llm_no_response(r)
    \/ stream_response_references(r)
    \/ stream_response_title(r)
    \/ stream_response_save(r)
    \/ stream_case3_save(r)

\* the memory of a process that has served no request
EmptyMemory == <<>>

\* Spec: the protocol of one conversation, from the start of the process
Init == InitOver({EmptyMemory}, {<<R_80, R_100>>}, BOOLEAN)

Next == NextOver(Reqs, {"s1"}, Questions, {E1, NEG}, {CH_C, CH_BLANK},
                 MaxRequests, MaxChunks)

Spec == Init /\ [][Next]_vars

\* SpecRank: the ranking pass over every table and query embedding
InitRank == InitOver({EmptyMemory}, Tables, {FALSE})

NextRank == NextOver(Reqs, {"s1"}, {Q_AB, Q_XA}, QueryEmbeddings, {CH_C},
                     MaxRankRequests, MaxRankChunks)

SpecRank == InitRank /\ [][NextRank]_vars

\* SpecHist: a conversation that already holds turns of earlier requests
TURN_1 == [question |-> Q_AB, answer |-> CH_C]

TURN_2 == [question |-> Q_XA, answer |-> CH_C]

TURN_3 == [question |-> Q_AB, answer |-> LLM_ERROR]

TURN_4 == [question |-> Q_XA, answer |-> LLM_ERROR]

TURN_5 == [question |-> Q_AB, answer |-> NO_RESPONSE_ERROR]

SeedHistory == <<TURN_1, TURN_2, TURN_3, TURN_4, TURN_5>>

HistMemories ==
  {EmptyMemory} \cup {("s1" :> Prefix(SeedHistory, n)) : n \in {4, 5}}

InitHist == InitOver(HistMemories, {<<R_80, R_100>>}, {FALSE})

NextHist == NextOver(Reqs, {"s1"}, {Q_AB, Q_XA}, {E1, NEG}, {CH_C},
                     MaxHistRequests, MaxHistChunks)

SpecHist == InitHist /\ [][NextHist]_vars

\* SpecIso: two conversations served concurrently by two request slots; the
\* steps of the two response generators interleave
IsoReqs == {1, 2}

IsoIds == {"s1", "s2"}

InitIso ==
  /\ conversation_memory = EmptyMemory
  /\ rows = <<R_80, R_100>>
  /\ groq_client = FALSE
  /\ req = [r \in IsoReqs |-> IdleRequest]
  /\ served = 0
  /\ connections = 0
  /\ scraper = IdleScraper
  /\ add_qa = IdleAddQa

NextIso == NextOver(IsoReqs, IsoIds, {Q_XA}, {E1, NEG}, {CH_C},
                    MaxIsoRequests, MaxIsoChunks)

SpecIso == InitIso /\ [][NextIso]_vars

\* SpecClean: one matching article whose content is any text of letters,
\* digits, periods, closing parentheses and spaces
CleanAlphabet == {"a", "1", ".", ")", " "}

Contents == UNION {[1..n -> CleanAlphabet] : n \in 0..MaxContentLen}

\* a "References:" header that ends the text
DOC_REFS_LAST ==
  <<"a", "\n", "R", "e", "f", "e", "r", "e", "n", "c", "e", "s", ":">>

\* a "References:" header with a line of text behind it
DOC_REFS_INLINE ==
  <<"a", "\n", "R", "e", "f", "e", "r", "e", "n", "c", "e", "s", ":", "\n", "b">>

\* an inline URL with a hyphen in it
URL_HYPHEN == <<"h", ":", "/", "/", "a", "-", "b">>

DOC_URL == <<"a", " ">> \o URL_HYPHEN

ReferenceDocs == {DOC_REFS_LAST, DOC_REFS_INLINE, DOC_URL}

R_DOC(content) ==
  [title |-> T_Z, url |-> "udoc", embedding |-> Literal(E1), content |-> content]

InitClean ==
  InitOver({EmptyMemory},
           {<<R_DOC(c)>> : c \in Contents \cup ReferenceDocs}, {FALSE})

NextClean == NextOver(Reqs, {"s1"}, {Q_XA}, {E1, NEG}, {CH_C},
                      MaxCleanRequests, MaxCleanChunks)

SpecClean == InitClean /\ [][NextClean]_vars

----------------------------------------------------------------------------
(* The event loop.  chat is a coroutine (async def) that never awaits: from  *)
(* its entry to its return it runs on the event loop, and nothing else the   *)
(* loop serves runs meanwhile.  The response generators are plain            *)
(* generators: the StreamingResponse resumes them in a worker thread, so a   *)
(* generator that waits for a chunk or sleeps between two chunks does not    *)
(* hold the loop.  The loop starts each resumption and sends the chunk: a    *)
(* step of a generator is taken when no other request's handler holds it.    *)
(* The statements of a resumption run in the worker thread: the last one,    *)
(* which saves the turn, can run beside a handler entered after its start.   *)

HandlerPhases == {"embedding", "fetching", "scoring"}

\* the request's handler is running: the event loop is busy with it
HoldsLoop(rq) == rq.pc \in HandlerPhases

\* no other request's handler holds the event loop
LoopFreeFor(r) == \A o \in DOMAIN req \ {r} : ~HoldsLoop(req[o])

\* chat() is entered: the history of the id is looked up (and created) and
\* read into history_context, and embed_model.encode is called
chat_embed(r, conversation_id, question, query_emb, cap) ==
  /\ Free(r)
  /\ LoopFreeFor(r)
  /\ served < cap
  /\ served' = served + 1
  /\ LET mem == get_conversation_history(conversation_memory, conversation_id)
     IN  /\ conversation_memory' = mem
         /\ req' = [req EXCEPT ![r] =
              [IdleRequest EXCEPT !.pc = "embedding", !.id = conversation_id,
                                  !.question = question,
                                  !.query_emb = query_emb,
                                  !.history_context = mem[conversation_id]]]
  /\ UNCHANGED <<rows, groq_client, connections, scraper, add_qa>>

\* chat(): the question is embedded; get_connection and the SELECT follow
chat_fetch(r) ==
  /\ req[r].pc = "embedding"
  /\ req' = [req EXCEPT ![r].pc = "fetching"]
  /\ UNCHANGED <<conversation_memory, rows, groq_client, served, connections,
               scraper, add_qa>>

\* chat(): the connection is opened and the rows are fetched; the scoring
\* loop follows
chat_score(r) ==
  /\ req[r].pc = "fetching"
  /\ req' = [req EXCEPT ![r].pc = "scoring"]
  /\ connections' = connections + 1
  /\ UNCHANGED <<conversation_memory, rows, groq_client, served, scraper, add_qa>>

\* chat(): embed_model.encode or get_connection/execute raises
chat_step_raises(r) ==
  /\ req[r].pc \in {"embedding", "fetching"}
  /\ req' = [req EXCEPT ![r].pc = "failed",
                        ![r].failure = IF req[r].pc = "embedding" THEN "embed" ELSE "db"]
  /\ connections' \in ConnectionsAfterRaise(
                        IF req[r].pc = "embedding" THEN "embed" ELSE "db")
  /\ UNCHANGED <<conversation_memory, rows, groq_client, served, scraper, add_qa>>

\* chat(): the rows are scored and the handler returns (or the scoring
\* raises); the event loop is free again
chat_return(r) ==
  /\ req[r].pc = "scoring"
  /\ req' = [req EXCEPT ![r] =
       chat_dispatch(req[r].history_context, conversation_memory[req[r].id],
                     req[r].id, req[r].question, req[r].query_emb)]
  /\ UNCHANGED <<conversation_memory, rows, groq_client, served, connections,
               scraper, add_qa>>

\* the generator has yielded its last chunk: the resumption that follows
\* saves the turn and ends the generator.  It runs in its worker thread and
\* yields nothing, so it can run while a handler that was entered after the
\* resumption was started holds the loop
AtLastResumption(rq) ==
  \/ rq.pc = "refs" /\ rq.ref_i > Len(rq.references)
  \/ rq.pc = "llm" /\ rq.path = "HISTORY_NO_MATCH_CONTINUING" /\ LlmExhausted(rq)

\* one resumption of the response generator of request r
generator_step(r, C, max_chunks) ==
  \/ stream_general_response(r)
  \/ stream_prefix(r)
  \/ \E c \in C : llm_chunk(r, c, max_chunks)
  \/ llm_error(r)
  \/ llm_parsing_error(r)
  \/ llm_no_response(r)
  \/ stream_response_references(r)
  \/ stream_response_title(r)
  \/ stream_response_save(r)
  \/ stream_case3_save(r)

\* the steps of request slot r in SpecLoop
LoopStep(r) ==
  \/ \E e \in {E1, NEG} : chat_embed(r, "s1", Q_XA, e, MaxLoopRequests)
  \/ chat_fetch(r)
  \/ chat_score(r)
  \/ chat_step_raises(r)
  \/ chat_return(r)
  \/ (LoopFreeFor(r) \/ AtLastResumption(req[r]))
       /\ generator_step(r, {CH_C}, MaxLoopChunks)

\* SpecLoop: two requests served by one process, with the event loop
LoopReqs == {1, 2}

InitLoop ==
  /\ conversation_memory = EmptyMemory
  /\ rows = <<R_80, R_100>>
  /\ groq_client = FALSE
  /\ req = [r \in LoopReqs |-> IdleRequest]
  /\ served = 0
  /\ connections = 0
  /\ scraper = IdleScraper
  /\ add_qa = IdleAddQa

NextLoop == \E r \in LoopReqs : LoopStep(r)

SpecLoop == InitLoop /\ [][NextLoop]_vars

----------------------------------------------------------------------------
(* SpecTopic: one conversation whose questions can be empty, can repeat the  *)
(* words of the last turn in another order and case, or share none of them.  *)

MaxTopicRequests == 2

MaxTopicChunks == 1

Q_EMPTY == <<>>

Q_BA == <<"B", " ", " ", "a">>

TopicQuestions == {Q_EMPTY, Q_AB, Q_BA}

InitTopic == InitOver({EmptyMemory}, {<<R_80, R_100>>}, {FALSE})

NextTopic == NextOver(Reqs, {"s1"}, TopicQuestions, {E1, NEG},
                      {CH_C, CH_BLANK}, MaxTopicRequests, MaxTopicChunks)

SpecTopic == InitTopic /\ [][NextTopic]_vars

----------------------------------------------------------------------------
(* SpecPaths: every table of the ranking, under a conversation that is new   *)
(* or has saved turns.                                                       *)

MaxPathsRequests == 2

MaxPathsChunks == 1

InitPaths == InitOver(HistMemories, Tables, {FALSE})

NextPaths == NextOver(Reqs, {"s1"}, {Q_AB, Q_XA}, QueryEmbeddings, {CH_C},
                      MaxPathsRequests, MaxPathsChunks)

SpecPaths == InitPaths /\ [][NextPaths]_vars

----------------------------------------------------------------------------
(* SpecGrow: requests of two conversations, one of them new and the other    *)
(* new or with 4 or 5 saved turns.                                           *)

MaxGrowRequests == 2

MaxGrowChunks == 1

InitGrow == InitOver(HistMemories, {<<R_80, R_100>>}, {FALSE})

NextGrow == NextOver(Reqs, IsoIds, {Q_XA}, {E1, NEG}, {CH_C},
                     MaxGrowRequests, MaxGrowChunks)

SpecGrow == InitGrow /\ [][NextGrow]_vars

----------------------------------------------------------------------------
(* The article table and the programs that insert into it: the scraper      *)
(* (scrape_single_category, scrape_dr_young_blog) and add_qa_railway.  The   *)
(* pages of the scraped sites are the environment: what a fetch returns is   *)
(* chosen at the fetch.                                                      *)

\* runs of a scraping function, and of add_qa_railway, in one behaviour
MaxScraperRuns == 1

MaxAddQaRuns == 1

\* page fetches of one run of scrape_single_category
MaxPageFetches == 3

\* article links on one listing page
MaxArticlesPerPage == 2

\* the category's first page, and the other page of the category
BASE_URL == "p1"

Pages == {BASE_URL, "p2"}

\* soup.find("a", class_="next") finds no link
NoLink == "none"

DR_YOUNG_BLOG_URL == "blog"

\* urls_to_scrape: the blog page, then one page for each category found
BlogUrlLists == {<<DR_YOUNG_BLOG_URL>>, <<DR_YOUNG_BLOG_URL, "cat">>}

ArticleUrls == {"u1", "u2", "u3"}

\* the article links of a listing page, in the order of the page
ArticleLists ==
  {l \in UNION {[1..n -> ArticleUrls] : n \in 1..MaxArticlesPerPage} :
     \A i, j \in DOMAIN l : i # j => l[i] # l[j]}

ArticleTitles == {T_A}

REVISED == <<"b">>

ArticleContents == {PLAIN, REVISED}

T_Q == <<"Q">>

T_Q2 == <<"Q", "2">>

\* the question-and-answer pairs of add_qa_railway: the url of the second
\* is the url of an article of the scraped blog
QA_PAIRS ==
  << [title |-> T_Q, url |-> "q1", content |-> PLAIN],
     [title |-> T_Q2, url |-> "u1", content |-> REVISED] >>

\* SELECT 1 FROM dr_young_all_articles WHERE url = %s finds a row
UrlTaken(table, url) == \E i \in DOMAIN table : table[i].url = url

\* the table takes every row: url is not declared UNIQUE
InsertUnconstrained(table, row) ==
  [raised |-> FALSE, table |-> Append(table, row)]

\* INSERT INTO dr_young_all_articles, url being declared UNIQUE: the insert
\* of a url the table holds raises and stores nothing
Insert(table, row) ==
  IF UrlTaken(table, row.url)
  THEN [raised |-> TRUE, table |-> table]
  ELSE [raised |-> FALSE, table |-> Append(table, row)]

\* fetchone() returns None
NoRow == [found |-> FALSE, content |-> <<>>]

\* SELECT title, content ... WHERE title = %s, then fetchone(): the one row
\* fetched (the statement has no ORDER BY: any row with the title may come
\* first)
FetchOneContent(table, title) ==
  LET hits == {i \in DOMAIN table : table[i].title = title}
  IN  IF hits = {} THEN {NoRow}
      ELSE {[found |-> TRUE, content |-> table[i].content] : i \in hits}

StoredRow(title, url, content) ==
  [title |-> title, url |-> url, embedding |-> Literal(E1), content |-> content]

ScraperFree == scraper.pc \in {"idle", "done", "raised"}

\* scrape_single_category is called: the loop starts at the category's page
scrape_single_category ==
  /\ ScraperFree
  /\ scraper.runs < MaxScraperRuns
  /\ scraper' = [IdleScraper EXCEPT !.pc = "fetch", !.fn = "category",
                                    !.page_url = BASE_URL,
                                    !.runs = scraper.runs + 1]
  /\ UNCHANGED <<conversation_memory, rows, groq_client, req, served,
                 connections, add_qa>>

\* scrape_dr_young_blog is called: the categories are discovered and the
\* loop over urls_to_scrape starts
scrape_dr_young_blog(urls) ==
  /\ ScraperFree
  /\ scraper.runs < MaxScraperRuns
  /\ scraper' = [IdleScraper EXCEPT !.pc = "fetch", !.fn = "blog",
                                    !.page_url = Head(urls),
                                    !.to_scrape = Tail(urls),
                                    !.runs = scraper.runs + 1]
  /\ UNCHANGED <<conversation_memory, rows, groq_client, req, served,
                 connections, add_qa>>

\* the scraper after the articles of a listing url of the blog: the next
\* url of urls_to_scrape, or the end of the function
NextBlogUrl(s) ==
  IF s.to_scrape = <<>>
  THEN [s EXCEPT !.pc = "done", !.articles = <<>>]
  ELSE [s EXCEPT !.pc = "fetch", !.page_url = Head(s.to_scrape),
                 !.to_scrape = Tail(s.to_scrape), !.articles = <<>>]

\* requests.get(page_url) raises: break in scrape_single_category, continue
\* with the next url in scrape_dr_young_blog
page_fetch_fails ==
  /\ scraper.pc = "fetch"
  /\ LET s == [scraper EXCEPT !.visited = Append(@, scraper.page_url)]
     IN  scraper' = IF scraper.fn = "category"
                    THEN [s EXCEPT !.pc = "done"]
                    ELSE NextBlogUrl(s)
  /\ UNCHANGED <<conversation_memory, rows, groq_client, req, served,
                 connections, add_qa>>

\* the page is fetched and its article links are found; a category page
\* without articles ends scrape_single_category
page_fetched(arts) ==
  /\ scraper.pc = "fetch"
  /\ LET s == [scraper EXCEPT !.visited = Append(@, scraper.page_url)]
     IN  scraper' = IF arts = <<>> /\ scraper.fn = "category"
                    THEN [s EXCEPT !.pc = "done"]
                    ELSE [s EXCEPT !.pc = "articles", !.articles = arts]
  /\ UNCHANGED <<conversation_memory, rows, groq_client, req, served,
                 connections, add_qa>>

\* the next article link: skipped when the table holds its url, fetched
\* otherwise
check_article ==
  /\ scraper.pc = "articles"
  /\ scraper.articles # <<>>
  /\ scraper' = IF UrlTaken(rows, Head(scraper.articles))
                THEN [scraper EXCEPT !.articles = Tail(@)]
                ELSE [scraper EXCEPT !.pc = "detail"]
  /\ UNCHANGED <<conversation_memory, rows, groq_client, req, served,
                 connections, add_qa>>

\* the article's page cannot be fetched, or its content is shorter than
\* MIN_CONTENT_LENGTH: the article is skipped
article_skipped ==
  /\ scraper.pc = "detail"
  /\ scraper' = [scraper EXCEPT !.pc = "articles", !.articles = Tail(@)]
  /\ UNCHANGED <<conversation_memory, rows, groq_client, req, served,
                 connections, add_qa>>

\* the article is fetched with this title and content: it is skipped when
\* the row fetched for its title has its content, and inserted (and
\* committed) otherwise.  An insert that raises leaves
\* scrape_single_category, and ends the listing url in scrape_dr_young_blog
store_article(title, content) ==
  /\ scraper.pc = "detail"
  /\ \E existing \in FetchOneContent(rows, title) :
       IF existing.found /\ existing.content = content
       THEN /\ scraper' = [scraper EXCEPT !.pc = "articles",
                                          !.articles = Tail(@)]
            /\ rows' = rows
       ELSE LET ins == Insert(rows, StoredRow(title, Head(scraper.articles),
                                              content))
            IN  /\ rows' = ins.table
                /\ scraper' =
                     IF ~ins.raised
                     THEN [scraper EXCEPT !.pc = "articles",
                                          !.articles = Tail(@)]
                     ELSE IF scraper.fn = "category"
                     THEN [scraper EXCEPT !.pc = "raised"]
                     ELSE NextBlogUrl(scraper)
  /\ UNCHANGED <<conversation_memory, groq_client, req, served, connections,
                 add_qa>>

\* scrape_single_category after the articles of a page: the 'next' link of
\* the page is followed, and the loop ends when the page has none
next_page(next) ==
  /\ scraper.pc = "articles"
  /\ scraper.fn = "category"
  /\ scraper.articles = <<>>
  /\ next # NoLink => Len(scraper.visited) < MaxPageFetches
  /\ scraper' = IF next = NoLink
                THEN [scraper EXCEPT !.pc = "done", !.page_url = ""]
                ELSE [scraper EXCEPT !.pc = "fetch", !.page_url = next]
  /\ UNCHANGED <<conversation_memory, rows, groq_client, req, served,
                 connections, add_qa>>

\* scrape_dr_young_blog after the articles of a listing url
next_url ==
  /\ scraper.pc = "articles"
  /\ scraper.fn = "blog"
  /\ scraper.articles = <<>>
  /\ scraper' = NextBlogUrl(scraper)
  /\ UNCHANGED <<conversation_memory, rows, groq_client, req, served,
                 connections, add_qa>>

\* the outcomes of the loop of add_qa_railway from pair i on, `table` being
\* what its connection sees: a pair whose title is stored is skipped (with
\* more than one row of that title fetchone() leaves rows unread, and the
\* connector may refuse the next statement), any other pair is inserted
RECURSIVE AddQaFrom(_, _)
AddQaFrom(table, i) ==
  IF i > Len(QA_PAIRS)
  THEN {[raised |-> FALSE, table |-> table]}
  ELSE LET qa == QA_PAIRS[i]
           hits == {j \in DOMAIN table : table[j].title = qa.title}
           ins == Insert(table, StoredRow(qa.title, qa.url, qa.content))
       IN  IF hits # {}
           THEN AddQaFrom(table, i + 1) \cup
                (IF Cardinality(hits) > 1
                 THEN {[raised |-> TRUE, table |-> table]} ELSE {})
           ELSE IF ins.raised
           THEN {ins}
           ELSE AddQaFrom(ins.table, i + 1)

\* add_qa_railway.py is run: its one commit follows the loop, so a statement
\* that raises ends the script with none of its rows stored
add_qa_railway ==
  /\ add_qa.pc \in {"idle", "done", "raised"}
  /\ add_qa.runs < MaxAddQaRuns
  /\ \E result \in AddQaFrom(rows, 1) :
       /\ rows' = IF result.raised THEN rows ELSE result.table
       /\ add_qa' = [pc |-> IF result.raised THEN "raised" ELSE "done",
                     runs |-> add_qa.runs + 1]
  /\ UNCHANGED <<conversation_memory, groq_client, req, served, connections,
                 scraper>>

InitScrape == InitOver({EmptyMemory}, {<<>>}, {FALSE})

NextScrape ==
  \/ scrape_single_category
  \/ \E urls \in BlogUrlLists : scrape_dr_young_blog(urls)
  \/ page_fetch_fails
  \/ \E arts \in ArticleLists \cup {<<>>} : page_fetched(arts)
  \/ check_article
  \/ article_skipped
  \/ \E title \in ArticleTitles, content \in ArticleContents :
       store_article(title, content)
  \/ \E next \in Pages \cup {NoLink} : next_page(next)
  \/ next_url
  \/ add_qa_railway

SpecScrape == InitScrape /\ [][NextScrape]_vars

----------------------------------------------------------------------------
(* Properties *)

\* the turns the memory holds for an id; none for an id it has no entry for
Turns(mem, id) == IF id \in DOMAIN mem THEN mem[id] ELSE <<>>

\* request r saves its turn in this step
Saves(r) == req'[r].commits = req[r].commits + 1

\* C1: every conversation id holds at most 5 turns in every reachable state,
\* and a save into a history of 5 turns drops exactly the oldest turn: the
\* other four keep their order and the new turn follows them (a save into a
\* shorter history appends the turn)
C1_HistoryBounded ==
  /\ [](\A id \in DOMAIN conversation_memory :
         Len(conversation_memory[id]) <= 5)
  /\ [][\A r \in Reqs : Saves(r) =>
          LET old == Turns(conversation_memory, req[r].id)
              new == conversation_memory'[req[r].id]
          IN  /\ new[Len(new)].question = req[r].question
              /\ IF Len(old) = 5
                 THEN /\ Len(new) = 5
                      /\ \A i \in 1..4 : new[i] = old[i + 1]
                 ELSE /\ Len(new) = Len(old) + 1
                      /\ \A i \in 1..Len(old) : new[i] = old[i]]_vars

\* C1 witness: the sixth turn of a conversation has been saved and the
\* oldest one is gone
C1_Witness ==
  /\ req[1].pc = "done" /\ req[1].commits = 1
  /\ "s1" \in DOMAIN conversation_memory
  /\ Len(conversation_memory["s1"]) = 5
  /\ conversation_memory["s1"][1] = TURN_2
  /\ conversation_memory["s1"][4] = TURN_5

KindsOf(out) == [i \in 1..Len(out) |-> out[i].kind]

\* the place of an event kind in the response of the match path
KindRank(kind) ==
  CASE kind = "banner" -> 1
    [] kind = "chunk" -> 2
    [] kind = "references" -> 3
    [] kind = "title" -> 4
    [] OTHER -> 0

\* the title events of out, in order
TitleEvents(out) == SelectSeq(out, LAMBDA e : e.kind = "title")

\* the banner, then chunks, then the "References:" line, then the titles of
\* the matched articles in ranking order
MatchOrder(rq) ==
  /\ \A i \in 1..Len(rq.out) :
        /\ KindRank(rq.out[i].kind) > 0
        /\ (i = 1) <=> (rq.out[i].kind = "banner")
        /\ rq.out[i].kind = "banner" => rq.out[i].lit = "Answer With AI:\n\n"
        /\ rq.out[i].kind = "references" => rq.out[i].lit = "\n\nReferences:\n"
  /\ \A i, j \in 1..Len(rq.out) :
        i < j => /\ KindRank(rq.out[i].kind) <= KindRank(rq.out[j].kind)
                 /\ ~(rq.out[i].kind = "references" /\ rq.out[j].kind = "references")
  /\ LET titles == TitleEvents(rq.out)
     IN  /\ Len(titles) <= Len(rq.scored)
         /\ \A k \in 1..Len(titles) :
               titles[k].text = rq.scored[k].row.title /\ titles[k].n = k

\* every title of the matched articles has been emitted
TrailerComplete(rq) ==
  /\ \E i \in 1..Len(rq.out) : rq.out[i].kind = "references"
  /\ Len(TitleEvents(rq.out)) = Len(rq.scored)
  /\ rq.out[Len(rq.out)].kind = "title"

\* C2: on the match path the response is the banner, the generator's chunks,
\* the "References:" line and the matched titles, in this order; the turn is
\* saved only once the last title has been emitted, one turn, into the
\* request's own conversation, and no other step of the request changes the
\* turns the memory holds
C2_MatchOrder ==
  /\ [](\A r \in Reqs : req[r].path = "MATCH_FOUND" =>
          /\ req[r].scored # <<>>
          /\ MatchOrder(req[r])
          /\ req[r].commits <= 1
          /\ req[r].commits = 1 <=> req[r].pc = "done")
  /\ [][\A r \in Reqs :
          (req'[r].path = "MATCH_FOUND" /\ req'[r] # req[r]) =>
            IF Saves(r)
            THEN /\ TrailerComplete(req[r])
                 /\ req'[r].out = req[r].out
                 /\ \A id \in DOMAIN conversation_memory' \ {req[r].id} :
                       Turns(conversation_memory', id) = Turns(conversation_memory, id)
                 /\ LET new == conversation_memory'[req[r].id]
                    IN  new[Len(new)].question = req[r].question
            ELSE \A id \in DOMAIN conversation_memory' :
                   Turns(conversation_memory', id) = Turns(conversation_memory, id)]_vars

\* C2 witness: a match request has streamed chunks and the trailer and has
\* saved its turn
C2_Witness ==
  /\ req[1].path = "MATCH_FOUND" /\ req[1].pc = "done" /\ req[1].commits = 1
  /\ KindsOf(req[1].out) = <<"banner", "chunk", "chunk", "references", "title">>
  /\ Len(conversation_memory["s1"]) = 1

\* the fixed refusal message
REFUSAL_MESSAGE ==
  "I don't have reliable information about this specific topic in the available content. Could you please provide more details or rephrase your question? Alternatively, you might want to ask about related topics like general health principles, wellness practices, or preventive care approaches."

\* request r is handled in this step and the handler returns a response
Handled(r) == served' = served + 1 /\ req'[r].pc # "failed"

\* C3: a request with no match on an empty history takes NO_HISTORY_NO_MATCH;
\* its response is the fixed refusal message alone, no generator function is
\* called, and the history is empty while and after it is served
C3_NoHistoryRefusal ==
  /\ [](\A r \in Reqs : req[r].path = "NO_HISTORY_NO_MATCH" =>
          /\ req[r].llm_calls = 0 /\ req[r].commits = 0
          /\ Turns(conversation_memory, req[r].id) = <<>>
          /\ req[r].pc \in {"general", "done"}
          /\ req[r].pc = "general" => req[r].out = <<>>
          /\ req[r].pc = "done" =>
                /\ Len(req[r].out) = 1
                /\ req[r].out[1].lit = REFUSAL_MESSAGE
                /\ req[r].out[1].text = <<>>)
  /\ [][\A r \in Reqs :
          (Handled(r) /\ req'[r].scored = <<>>
             /\ Turns(conversation_memory, req'[r].id) = <<>>)
            => req'[r].path = "NO_HISTORY_NO_MATCH"]_vars

\* C3 witness: the second of two consecutive requests on a fresh id has been
\* refused, and the history is still empty
C3_Witness ==
  /\ served = 2
  /\ req[1].path = "NO_HISTORY_NO_MATCH" /\ req[1].pc = "done"
  /\ conversation_memory = ("s1" :> <<>>)

\* the words of a text: lowercased, split at whitespace
Words(text) == split(lower(text))

\* the Jaccard score of the last turn and the question exceeds 0.3
JaccardAbove(last, question) ==
  LET a == ToSet(Words(last.question)) \cup ToSet(Words(last.answer))
      b == ToSet(Words(question))
  IN  a \cup b # {} /\ 10 * Cardinality(a \cap b) > 3 * Cardinality(a \cup b)

\* one of the first 10 words of the last turn's question and answer occurs
\* in the lowercased question
FirstTenOccur(last, question) ==
  LET words == Words(last.question) \o Words(last.answer)
  IN  \E i \in 1..Len(words) : i <= 10 /\ Contains(lower(question), words[i])

\* C4: a request with no match on a non-empty history takes
\* HISTORY_NO_MATCH_CONTINUING exactly if the Jaccard score of the last turn
\* and the question exceeds 0.3 or one of the first 10 words of the last turn
\* occurs in the question, and HISTORY_NO_MATCH_NEW_TOPIC otherwise; on the
\* continuing path the prompt is built from the last turn and the question
\* alone, the generator function is called, and the turn is saved when the
\* stream ends
C4_TopicContinuity ==
  /\ [][\A r \in Reqs :
          (Handled(r) /\ req'[r].scored = <<>>
             /\ Turns(conversation_memory, req'[r].id) # <<>>) =>
            LET history == conversation_memory[req'[r].id]
                last == history[Len(history)]
                continues == JaccardAbove(last, req'[r].question)
                               \/ FirstTenOccur(last, req'[r].question)
            IN  /\ continues <=> req'[r].path = "HISTORY_NO_MATCH_CONTINUING"
                /\ ~continues <=> req'[r].path = "HISTORY_NO_MATCH_NEW_TOPIC"
                /\ continues =>
                      /\ req'[r].prompt.kind = "last_turn"
                      /\ req'[r].prompt.articles = <<>>
                      /\ req'[r].prompt.history = <<>>
                      /\ req'[r].prompt.last_question = lower(last.question)
                      /\ req'[r].prompt.last_answer = Prefix(lower(last.answer), 200)
                      /\ req'[r].prompt.question = req'[r].question]_vars
  /\ [][\A r \in Reqs :
          (req[r].path = "HISTORY_NO_MATCH_CONTINUING" /\ req'[r].pc = "done"
             /\ req[r].pc # "done") =>
            /\ Saves(r)
            /\ req'[r].llm_calls = 1
            /\ LET new == conversation_memory'[req[r].id]
               IN  new[Len(new)].question = req[r].question]_vars
  /\ [](\A r \in Reqs : req[r].path = "HISTORY_NO_MATCH_CONTINUING" =>
          /\ req[r].commits <= 1
          /\ req[r].commits = 1 <=> req[r].pc = "done")

\* C4 witness: a request continued the topic because a first word of the
\* last turn occurs inside a word of the question, while the two word sets
\* share nothing; its turn is saved
C4_Witness ==
  /\ req[1].path = "HISTORY_NO_MATCH_CONTINUING"
  /\ req[1].pc = "done" /\ req[1].commits = 1
  /\ req[1].question = Q_XA
  /\ req[1].prompt.last_question = lower(Q_LONG)
  /\ Len(conversation_memory["s1"]) = 2

\* C5: on HISTORY_NO_MATCH_NEW_TOPIC the response is the refusal message of
\* NO_HISTORY_NO_MATCH, character for character, and nothing else; no
\* generator function is called and no step of the request changes the
\* conversation memory
C5_NewTopicRefusal ==
  /\ [](\A r \in Reqs : req[r].path = "HISTORY_NO_MATCH_NEW_TOPIC" =>
          /\ req[r].llm_calls = 0 /\ req[r].commits = 0
          /\ req[r].pc \in {"general", "done"}
          /\ req[r].pc = "general" => req[r].out = <<>>
          /\ req[r].pc = "done" =>
                /\ Len(req[r].out) = 1
                /\ req[r].out[1].lit = GENERAL_ANSWER_NO_HISTORY
                /\ req[r].out[1].lit = REFUSAL_MESSAGE
                /\ req[r].out[1].text = <<>>)
  /\ [][\A r \in Reqs :
          (req'[r].path = "HISTORY_NO_MATCH_NEW_TOPIC" /\ req'[r] # req[r])
            => conversation_memory' = conversation_memory]_vars

\* C5 witness: a request on a different topic has been refused and the one
\* saved turn is still the only one
C5_Witness ==
  /\ req[1].path = "HISTORY_NO_MATCH_NEW_TOPIC" /\ req[1].pc = "done"
  /\ Len(req[1].out) = 1
  /\ Len(conversation_memory["s1"]) = 1

\* a chunk that reports a failed or timed-out generator connection
IsDiagnostic(e) ==
  e.kind = "chunk" /\ e.text \in {LLM_ERROR, LLM_ERROR_DIRECT}

\* C6: when the generator connection fails during a MATCH_FOUND or
\* HISTORY_NO_MATCH_CONTINUING request, the response holds one diagnostic
\* chunk and ends with it: nothing is emitted after the diagnostic chunk
C6_DiagnosticChunkEndsStream ==
  \A r \in Reqs :
    req[r].path \in {"MATCH_FOUND", "HISTORY_NO_MATCH_CONTINUING"} =>
      \A i \in 1..Len(req[r].out) :
        IsDiagnostic(req[r].out[i]) => i = Len(req[r].out)

\* C7: every request gets a response stream; none ends in an exception that
\* leaves the handler
C7_AlwaysAStream ==
  \A r \in Reqs : req[r].pc # "failed"

\* the rows whose embedding text can be evaluated
WellFormedRows == SelectSeq(rows, LAMBDA row : row.embedding.literal)

\* request r has embedded its question and fetched the rows
Ranked(r) == req[r].pc # "idle" /\ req[r].failure \notin {"embed", "db"}

\* C8: a row whose embedding text cannot be evaluated is skipped: the request
\* does not fail and its ranking is the ranking of the other rows
C8_MalformedRowSkipped ==
  \A r \in Reqs : Ranked(r) =>
    /\ req[r].failure = ""
    /\ req[r].scored =
         Rank(ScoreRows(WellFormedRows, req[r].query_emb, req[r].question).scored)

\* the rows with an embedding of non-zero norm
NonZeroRows == SelectSeq(rows, LAMBDA row : Norm(row.embedding.value) # 0)

\* the score of a row when a cosine with a zero-norm vector counts as 0
GuardedScore(query_emb, row, question) ==
  LET n == Norm(query_emb) * Norm(row.embedding.value)
      cos == IF n = 0 THEN 0 ELSE (100 * Dot(query_emb, row.embedding.value)) \div n
  IN  IF \E w \in ToSet(Words(question)) : Contains(lower(row.title), w)
      THEN cos + 10 ELSE cos

\* C9: with a query embedding or a stored embedding of norm 0 (and every
\* embedding text well-formed) the request does not fail, no nan score is
\* returned, no zero-norm row is returned, the result is the one the ranking
\* gives without the zero-norm rows, and it is the best row above the
\* threshold when a cosine with a zero-norm vector counts as 0
C9_ZeroNormScoresZero ==
  \A r \in Reqs : (Ranked(r) /\ WellFormedRows = rows) =>
    /\ req[r].failure = ""
    /\ \A i \in 1..Len(req[r].scored) :
          /\ ~req[r].scored[i].score.nan
          /\ Norm(req[r].scored[i].row.embedding.value) # 0
    /\ Norm(req[r].query_emb) = 0 => req[r].scored = <<>>
    /\ req[r].scored =
         Rank(ScoreRows(NonZeroRows, req[r].query_emb, req[r].question).scored)
    /\ (req[r].scored = <<>>) <=>
         (\A k \in 1..Len(rows) :
            GuardedScore(req[r].query_emb, rows[k], req[r].question) <= 30)
    /\ \A i \in 1..Len(req[r].scored), k \in 1..Len(rows) :
          /\ req[r].scored[i].score.v =
               GuardedScore(req[r].query_emb, req[r].scored[i].row, req[r].question)
          /\ req[r].scored[i].score.v >=
               GuardedScore(req[r].query_emb, rows[k], req[r].question)

\* C9 witness: the table holds a zero-norm embedding in front of a matching
\* article, and the request has matched that article
C9_Witness ==
  /\ rows = <<R_ZERO, R_80>>
  /\ req[1].query_emb = E1 /\ req[1].question = Q_AB
  /\ req[1].path = "MATCH_FOUND"
  /\ Len(req[1].scored) = 1 /\ req[1].scored[1].row = R_80

\* C10: the ranking returns at most topK = 1 scored articles, and the boosted
\* score of every returned article is strictly greater than 0.30
C10_TopKAboveThreshold ==
  \A r \in Reqs :
    /\ Len(req[r].scored) <= 1
    /\ \A i \in 1..Len(req[r].scored) :
          /\ ~req[r].scored[i].score.nan
          /\ req[r].scored[i].score.v > 30
          /\ req[r].scored[i].score.v =
               GuardedScore(req[r].query_emb, req[r].scored[i].row, req[r].question)
          /\ \E k \in 1..Len(rows) : rows[k] = req[r].scored[i].row

\* C10 witness: two rows score exactly 0.30 (one of them by the boost), two
\* score more, and the ranking returned one article
C10_Witness ==
  /\ rows = <<R_30, R_20, R_80, R_100>>
  /\ req[1].query_emb = E1 /\ req[1].question = Q_AB
  /\ GuardedScore(E1, R_30, Q_AB) = 30 /\ GuardedScore(E1, R_20, Q_AB) = 30
  /\ GuardedScore(E1, R_80, Q_AB) = 90
  /\ req[1].scored = <<[score |-> Num(100), row |-> R_100]>>

\* the question tokens that occur in the lowercased title, as substrings
MatchingTokens(title, question) ==
  {w \in ToSet(Words(question)) : Contains(lower(title), w)}

\* the boost of the claim: 0.1 when a token matches, whatever the number of
\* matching tokens, and 0 when none does
ExpectedBoost(title, question) ==
  IF MatchingTokens(title, question) # {} THEN 10 ELSE 0

\* C11: for every article of the table and every question, the boosted score
\* minus the cosine score is 0.1 when at least one lowercased token of the
\* question is a substring of the lowercased title and 0 otherwise, however
\* many tokens match (a cosine that is nan stays nan); the score of a
\* returned article is its cosine plus that boost
C11_BoostAtMostOnce ==
  \A r \in Reqs : (Ranked(r) /\ req[r].failure = "") =>
    /\ \A k \in 1..Len(rows) :
          LET cos == cosine(req[r].query_emb, rows[k].embedding.value)
              boosted == RowScore(req[r].query_emb, rows[k], req[r].question)
          IN  IF cos.nan THEN boosted.nan
              ELSE /\ ~boosted.nan
                   /\ boosted.v - cos.v = ExpectedBoost(rows[k].title, req[r].question)
    /\ \A i \in 1..Len(req[r].scored) :
          LET cos == cosine(req[r].query_emb, req[r].scored[i].row.embedding.value)
          IN  req[r].scored[i].score.v - cos.v =
                ExpectedBoost(req[r].scored[i].row.title, req[r].question)

\* C11 witness: two tokens of the question are substrings of the returned
\* article's title, neither is the whole title, and the score is the cosine
\* 0.80 plus 0.1
C11_Witness ==
  /\ rows = <<R_ZERO, R_80>>
  /\ req[1].query_emb = E1 /\ req[1].question = Q_AB
  /\ Cardinality(MatchingTokens(R_80.title, Q_AB)) = 2
  /\ lower(R_80.title) \notin MatchingTokens(R_80.title, Q_AB)
  /\ cosine(E1, R_80.embedding.value) = Num(80)
  /\ req[1].scored = <<[score |-> Num(90), row |-> R_80]>>

\* the cosine of a row is at most 0.30 and the boost lifts it above 0.30
LiftedByBoost(query_emb, row, question) ==
  LET cos == cosine(query_emb, row.embedding.value)
  IN  /\ ~cos.nan /\ cos.v <= 30 /\ cos.v + 10 > 30
      /\ MatchingTokens(row.title, question) # {}

\* C12: the threshold is tested on the boosted score: a row whose cosine is
\* at most 0.30, whose cosine plus 0.1 exceeds 0.30 and whose title matches a
\* question token is among the candidates of the scoring loop, so the
\* request takes the match path and returns an article that scores at least
\* that row's cosine plus 0.1
C12_ThresholdAfterBoost ==
  \A r \in Reqs : (Ranked(r) /\ req[r].failure = "") =>
    \A k \in 1..Len(rows) :
      LiftedByBoost(req[r].query_emb, rows[k], req[r].question) =>
        LET candidates == ScoreRows(rows, req[r].query_emb, req[r].question).scored
            cos == cosine(req[r].query_emb, rows[k].embedding.value)
        IN  /\ \E i \in 1..Len(candidates) :
                  /\ candidates[i].row = rows[k]
                  /\ candidates[i].score = Num(cos.v + 10)
            /\ req[r].path = "MATCH_FOUND"
            /\ Len(req[r].scored) = 1
            /\ req[r].scored[1].score.v >= cos.v + 10

\* C12 witness: the only row above the threshold is one with cosine 0.30
\* and a matching title, and it has been returned with the score 0.40
C12_Witness ==
  /\ rows = <<R_30, R_30B, R_30A>>
  /\ req[1].query_emb = E1 /\ req[1].question = Q_AB
  /\ cosine(E1, R_30B.embedding.value) = Num(30)
  /\ LiftedByBoost(E1, R_30B, Q_AB)
  /\ req[1].path = "MATCH_FOUND"
  /\ req[1].scored = <<[score |-> Num(40), row |-> R_30B]>>

\* the positions of the rows whose boosted score exceeds the threshold
CandidatePositions(query_emb, question) ==
  {k \in 1..Len(rows) : GuardedScore(query_emb, rows[k], question) > 30}

\* the first position, in the order the rows were read, of a candidate with
\* the maximum boosted score
FirstBest(query_emb, question) ==
  LET cand == CandidatePositions(query_emb, question)
      best == {k \in cand :
                 \A j \in cand : GuardedScore(query_emb, rows[j], question)
                                    <= GuardedScore(query_emb, rows[k], question)}
  IN  CHOOSE k \in best : \A j \in best : k <= j

\* C13: when some row is above the threshold, the ranking returns the row
\* with the maximum boosted score among the rows above the threshold, and of
\* several rows with exactly that score the one read first; when none is
\* above the threshold it returns nothing
C13_MaxScoreFirstSeen ==
  \A r \in Reqs : (Ranked(r) /\ req[r].failure = "") =>
    IF CandidatePositions(req[r].query_emb, req[r].question) = {}
    THEN req[r].scored = <<>>
    ELSE LET k == FirstBest(req[r].query_emb, req[r].question)
         IN  /\ Len(req[r].scored) = 1
             /\ req[r].scored[1].row = rows[k]
             /\ req[r].scored[1].score =
                   Num(GuardedScore(req[r].query_emb, rows[k], req[r].question))

\* C13 witness: two rows have the maximum score 0.90, one by its cosine and
\* one by the boost, and the one read first has been returned
C13_Witness ==
  /\ rows = <<R_80, R_90>>
  /\ req[1].query_emb = E1 /\ req[1].question = Q_AB
  /\ GuardedScore(E1, R_80, Q_AB) = 90 /\ GuardedScore(E1, R_90, Q_AB) = 90
  /\ req[1].scored = <<[score |-> Num(90), row |-> R_80]>>

\* C13 witness of the other order: the row read second has the higher score
\* and has been returned
C13_WitnessLaterRow ==
  /\ rows = <<R_80, R_90>>
  /\ req[1].query_emb = E1 /\ req[1].question = Q_XA
  /\ req[1].scored = <<[score |-> Num(90), row |-> R_90]>>

\* two rows of the table with the same embedding, of non-zero norm
SameEmbedding(a, b) ==
  /\ a.embedding.value = b.embedding.value
  /\ Norm(a.embedding.value) # 0

\* C14 as stated: two rows with identical non-zero embeddings get equal
\* scores from the scoring loop, whatever their titles are
C14_EqualScoresWhateverTitles ==
  \A r \in Reqs : (Ranked(r) /\ req[r].failure = "") =>
    \A k, j \in 1..Len(rows) :
      SameEmbedding(rows[k], rows[j]) =>
        RowScore(req[r].query_emb, rows[k], req[r].question)
          = RowScore(req[r].query_emb, rows[j], req[r].question)

\* C14 amended: two rows with identical non-zero embeddings get equal cosine
\* scores; their scores are equal when the titles both match or both do not
\* match a token of the question, and differ by exactly 0.1, in favour of the
\* matching title, when only one does
C14_EqualScoresForEqualTitleMatch ==
  \A r \in Reqs : (Ranked(r) /\ req[r].failure = "") =>
    \A k, j \in 1..Len(rows) :
      SameEmbedding(rows[k], rows[j]) =>
        LET sk == RowScore(req[r].query_emb, rows[k], req[r].question)
            sj == RowScore(req[r].query_emb, rows[j], req[r].question)
            mk == MatchingTokens(rows[k].title, req[r].question) # {}
            mj == MatchingTokens(rows[j].title, req[r].question) # {}
        IN  /\ cosine(req[r].query_emb, rows[k].embedding.value)
                 = cosine(req[r].query_emb, rows[j].embedding.value)
            /\ (mk <=> mj) => sk = sj
            /\ (mk /\ ~mj /\ ~sk.nan) => sk.v = sj.v + 10

\* C14 witness: three rows share one embedding; the two whose titles match
\* the question (by two tokens and by one) score 0.40, the third 0.30, and
\* the first of the two has been returned
C14_Witness ==
  /\ rows = <<R_30, R_30B, R_30A>>
  /\ req[1].query_emb = E1 /\ req[1].question = Q_AB
  /\ SameEmbedding(R_30, R_30B) /\ SameEmbedding(R_30B, R_30A)
  /\ Cardinality(MatchingTokens(T_AB, Q_AB)) = 2
  /\ Cardinality(MatchingTokens(T_A, Q_AB)) = 1
  /\ RowScore(E1, R_30, Q_AB) = Num(30)
  /\ RowScore(E1, R_30A, Q_AB) = Num(40)
  /\ req[1].scored = <<[score |-> Num(40), row |-> R_30B]>>

\* the texts of the chunk events of out, in order
ChunkTexts(out) ==
  LET chunks == SelectSeq(out, LAMBDA e : e.kind = "chunk")
  IN  [i \in 1..Len(chunks) |-> chunks[i].text]

\* C15: on the match path and the continuing path the banner is the first
\* thing emitted, before any generator chunk, and the chunks delivered after
\* it are exactly the chunks the generator function produced so far: each
\* one, once, in the same order, and nothing else (the accumulated answer is
\* not sent again)
C15_ChunksDeliveredAsProduced ==
  \A r \in Reqs :
    req[r].path \in {"MATCH_FOUND", "HISTORY_NO_MATCH_CONTINUING"} =>
      /\ req[r].produced # <<>> =>
            (req[r].out # <<>> /\ req[r].out[1].kind = "banner")
      /\ ChunkTexts(req[r].out) = req[r].produced

RECURSIVE Concat(_)
\* the concatenation of a sequence of texts
Concat(texts) ==
  IF texts = <<>> THEN <<>> ELSE texts[1] \o Concat(Tail(texts))

\* a text with its runs of whitespace collapsed to one space and its ends
\* trimmed
Normalized(text) == JoinSpace(split(text))

\* C16: a request saves at most one turn, and only on the match path and
\* the continuing path; once it has ended, the turn it saved is the last of
\* its conversation, with the request's question and, as the answer, the
\* whitespace-normalized concatenation of what the generator function
\* produced in the request (no banner, no references trailer)
C16_OneTurnOfGeneratorOutput ==
  \A r \in Reqs :
    /\ req[r].commits <= 1
    /\ req[r].commits = 1 =>
          /\ req[r].path \in {"MATCH_FOUND", "HISTORY_NO_MATCH_CONTINUING"}
          /\ req[r].pc = "done"
          /\ LET history == Turns(conversation_memory, req[r].id)
             IN  /\ history # <<>>
                 /\ history[Len(history)].question = req[r].question
                 /\ history[Len(history)].answer
                      = Normalized(Concat(req[r].produced))

\* the "References:" lines and the title lines of out
TrailerEvents(out) ==
  SelectSeq(out, LAMBDA e : e.kind \in {"references", "title"})

\* C17: on the match path the trailer is one "References:" line followed by
\* the titles of the articles the ranking returned, each once, in the
\* ranking's order (complete when the response has ended, a prefix of it
\* before); the refusals and the continuing path emit no trailer
C17_TrailerListsRankedTitles ==
  \A r \in Reqs :
    LET trailer == TrailerEvents(req[r].out)
        ranked == req[r].scored
    IN  IF req[r].path = "MATCH_FOUND"
        THEN /\ Len(trailer) <= 1 + Len(ranked)
             /\ \A i \in 1..Len(trailer) :
                   IF i = 1 THEN trailer[i].kind = "references"
                   ELSE /\ trailer[i].kind = "title"
                        /\ trailer[i].text = ranked[i - 1].row.title
             /\ req[r].pc = "done" => Len(trailer) = 1 + Len(ranked)
             /\ ranked # <<>>
             /\ \A i \in 1..Len(ranked) :
                   ranked[i].row =
                     rows[FirstBest(req[r].query_emb, req[r].question)]
        ELSE trailer = <<>>

\* C17 witness: a match request on a conversation that holds a turn has
\* ended with the title of the one ranked article in its trailer
C17_Witness ==
  /\ req[1].path = "MATCH_FOUND" /\ req[1].pc = "done"
  /\ req[1].scored[1].row = R_100
  /\ TrailerEvents(req[1].out) =
       <<Ev("references", "\n\nReferences:\n", <<>>, 0), Ev("title", "", <<"Z">>, 1)>>
  /\ Len(conversation_memory["s1"]) = 2

\* C17 witness of the other paths: a request on the continuing path has
\* ended, and its response holds chunks and no trailer
C17_WitnessContinuing ==
  /\ req[1].path = "HISTORY_NO_MATCH_CONTINUING" /\ req[1].pc = "done"
  /\ Len(ChunkTexts(req[1].out)) > 0
  /\ TrailerEvents(req[1].out) = <<>>

\* slot r takes a step: its request is handled or its generator resumed
Steps(r) == req'[r] # req[r]

\* C18: with two conversations served concurrently, a step of a request
\* with id A leaves the turns of every other id as they are, and a history
\* changes only by a save of a request that carries its id; the path, the
\* prompt and the saved turn of a request are those computed from the rows,
\* the request and the history of its own id alone
C18_ConversationsIsolated ==
  /\ [][\A r \in IsoReqs : Steps(r) =>
          \A id \in IsoIds \ {req'[r].id} :
            Turns(conversation_memory', id) = Turns(conversation_memory, id)]_vars
  /\ [][\A id \in IsoIds :
          Turns(conversation_memory', id) # Turns(conversation_memory, id) =>
            \E r \in IsoReqs : req[r].id = id /\ Saves(r)]_vars
  /\ [][\A r \in IsoReqs : (Handled(r) /\ Steps(r)) =>
          LET own == Turns(conversation_memory, req'[r].id)
              ranked == Rank(ScoreRows(rows, req'[r].query_emb, req'[r].question).scored)
          IN  /\ req'[r].path = Dispatch(ranked, own, req'[r].question)
              /\ req'[r].path = "MATCH_FOUND" =>
                    req'[r].prompt = ArticlePrompt(own, ranked, req'[r].question)
              /\ req'[r].path = "HISTORY_NO_MATCH_CONTINUING" =>
                    req'[r].prompt = Case3Prompt(own[Len(own)], req'[r].question)]_vars
  /\ [][\A r \in IsoReqs : Saves(r) =>
          LET old == Turns(conversation_memory, req[r].id)
          IN  conversation_memory'[req[r].id] =
                Append(old, [question |-> req[r].question,
                             answer |-> Normalized(Concat(ChunkTexts(req[r].out)))])]_vars

\* C18 witness: while the request of conversation s1 is streaming, the
\* request of conversation s2 has streamed and saved its turn, and the
\* history of s1 is still empty
C18_Witness ==
  /\ req[1].id = "s1" /\ req[1].pc = "llm" /\ req[1].path = "MATCH_FOUND"
  /\ req[2].id = "s2" /\ req[2].pc = "done" /\ req[2].commits = 1
  /\ conversation_memory["s1"] = <<>>
  /\ Len(conversation_memory["s2"]) = 1

\* C18 witness of the dispatch: conversation s1 holds a turn, and a request
\* of conversation s2 with no match has been refused as one with no history
C18_WitnessDispatch ==
  /\ Len(Turns(conversation_memory, "s1")) = 1
  /\ req[2].id = "s2" /\ req[2].path = "NO_HISTORY_NO_MATCH"
  /\ req[2].pc = "done"

\* the request waits for generator chunks or streams them
Streaming(rq) == rq.pc \in {"banner", "llm", "refs", "general"}

\* the request is being handled: it is embedded, its articles are fetched
\* or scored, or its response is streamed
InProgress(rq) == Streaming(rq) \/ rq.pc \in {"embedding", "fetching", "scoring"}

\* slot b has a step to take: the next step of its response generator, or
\* the entry of a new request into the handler
HasStep(b) == Streaming(req[b]) \/ (Free(b) /\ served < MaxLoopRequests)

\* C19: while a request is being handled (embedding, article fetch, scoring,
\* waiting for or streaming generator chunks), every other request that has
\* a step to take can take it: no step of the one request holds up the other
C19_NoStepHoldsUpAnotherRequest ==
  \A a, b \in LoopReqs :
    (a # b /\ InProgress(req[a]) /\ HasStep(b)) => ENABLED LoopStep(b)

\* while a request waits for or streams generator chunks, every other
\* request that has a step to take can take it
StreamingHoldsUpNoRequest ==
  \A a, b \in LoopReqs :
    (a # b /\ Streaming(req[a]) /\ HasStep(b)) => ENABLED LoopStep(b)

\* position i of text starts a numbered-list marker of the form "1." or
\* "2)": a digit followed by a period or by a closing parenthesis
MarkerAt(text, i) ==
  /\ i + 1 <= Len(text)
  /\ text[i] \in {"0", "1", "2"}
  /\ text[i + 1] \in {".", ")"}

\* C20: the context built from a matched article holds no numbered-list
\* marker of the form "1." or "2)": clean_context has replaced every one of
\* them (by a space)
C20_NumberedMarkersReplaced ==
  \A r \in Reqs : req[r].path = "MATCH_FOUND" =>
    \A i \in 1..Len(req[r].prompt.context) :
      ~MarkerAt(req[r].prompt.context, i)

\* the header "References:", in lower case
REFERENCES_COLON ==
  <<"r", "e", "f", "e", "r", "e", "n", "c", "e", "s", ":">>

\* the positions of text at which a "References:" header starts
HeaderPositions(text) ==
  {i \in 1..Len(text) :
     /\ i + Len(REFERENCES_COLON) - 1 <= Len(text)
     /\ lower(SubSeq(text, i, i + Len(REFERENCES_COLON) - 1)) = REFERENCES_COLON}

\* the header at position i is the last thing in the text: only whitespace
\* follows it
HeaderIsLast(text, i) ==
  \A j \in (i + Len(REFERENCES_COLON))..Len(text) : text[j] \in Whitespace

\* the article the context of request r was built from
ArticleContent(r) == req[r].scored[1].row.content

\* C21: the context keeps every "References:" header of the article that
\* is not the last thing in its text, and every inline URL of the article
\* occurs in the context character for character, also one with a hyphen
C21_OnlyTrailingHeaderRemoved ==
  \A r \in Reqs : req[r].path = "MATCH_FOUND" =>
    LET content == ArticleContent(r)
        context == req[r].prompt.context
    IN  /\ Cardinality(HeaderPositions(context)) >=
             Cardinality({i \in HeaderPositions(content) : ~HeaderIsLast(content, i)})
        /\ Contains(content, URL_HYPHEN) => Contains(context, URL_HYPHEN)

\* the first half of C21 alone, the "References:" header
InlineHeaderKept ==
  \A r \in Reqs : req[r].path = "MATCH_FOUND" =>
    Cardinality(HeaderPositions(req[r].prompt.context)) >=
      Cardinality({i \in HeaderPositions(ArticleContent(r)) :
                     ~HeaderIsLast(ArticleContent(r), i)})

\* the second half of C21 alone, the inline URL
InlineUrlKept ==
  \A r \in Reqs : req[r].path = "MATCH_FOUND" =>
    (Contains(ArticleContent(r), URL_HYPHEN)
       => Contains(req[r].prompt.context, URL_HYPHEN))

\* a trailing "References:" header is removed from the context
TrailingHeaderRemoved ==
  \A r \in Reqs :
    (req[r].path = "MATCH_FOUND" /\ ArticleContent(r) = DOC_REFS_LAST) =>
      req[r].prompt.context = <<"a">>

\* C22: after any sequence of insert attempts by the scraper and by
\* add_qa_railway, no two rows of the article table have the same url
C22_UrlUnique ==
  \A i, j \in DOMAIN rows : rows[i].url = rows[j].url => i = j

\* add_qa_railway attempted the insert of a url the scraper had stored, and
\* the insert was refused
C22_Witness ==
  /\ add_qa.pc = "raised"
  /\ scraper.runs > 0
  /\ UrlTaken(rows, QA_PAIRS[2].url)
  /\ \A i \in DOMAIN rows : rows[i].title \notin {T_Q, T_Q2}


\* C23: after any sequence of scraper runs, no two stored articles have both
\* the same title and the same content
C23_NoDuplicateArticles ==
  \A i, j \in DOMAIN rows :
    rows[i].title = rows[j].title /\ rows[i].content = rows[j].content
      => i = j


\* C30: the pagination loop of scrape_single_category never visits the same
\* page URL twice (so with finitely many distinct pages it terminates)
C30_NoPageVisitedTwice ==
  scraper.fn = "category" =>
    \A i, j \in DOMAIN scraper.visited :
      scraper.visited[i] = scraper.visited[j] => i = j


\* the request took the no-match branch with a history: the Case 3 test ran
Case3Tested(rq) ==
  rq.path \in {"HISTORY_NO_MATCH_CONTINUING", "HISTORY_NO_MATCH_NEW_TOPIC"}

\* C24: the topic-continuity score of the no-match branch is
\* |intersection| / |union| of the token set of the last question and answer
\* and the token set of the question: 1.0 when the two sets are equal, 0.0
\* when they share no token, and 0, the request not failing, when both are
\* empty
C24_ScoreIsJaccard ==
  [][\A r \in Reqs :
       (served' = served + 1 /\ req'[r].scored = <<>> /\ req'[r].failure = ""
          /\ Turns(conversation_memory, req'[r].id) # <<>>) =>
         LET history == conversation_memory[req'[r].id]
             last == history[Len(history)]
             a == ToSet(Words(last.question)) \cup ToSet(Words(last.answer))
             b == ToSet(Words(req'[r].question))
             ratio == req'[r].similarity_ratio
         IN  /\ Case3Tested(req'[r])
             /\ ratio.den > 0
             /\ ratio.num * Cardinality(a \cup b)
                  = Cardinality(a \cap b) * ratio.den
             /\ (a = b /\ a # {}) => ratio.num = ratio.den
             /\ a \cap b = {} => ratio.num = 0
             /\ a \cup b = {} => ratio.num = 0]_vars

\* C24 witness: the question repeats the two words of the last turn, whose
\* answer is empty, in another order and case, and the score is 2/2
C24_Witness ==
  /\ Case3Tested(req[1])
  /\ req[1].question = Q_AB
  /\ req[1].prompt.last_question = lower(Q_BA)
  /\ req[1].prompt.last_answer = <<>>
  /\ req[1].similarity_ratio = [num |-> 2, den |-> 2]

\* the question and the last turn are both empty: the score is 0
C24_WitnessBothEmpty ==
  /\ req[1].path = "HISTORY_NO_MATCH_NEW_TOPIC"
  /\ req[1].question = Q_EMPTY
  /\ conversation_memory["s1"][1] = [question |-> <<>>, answer |-> <<>>]
  /\ req[1].similarity_ratio = [num |-> 0, den |-> 1]

\* the question shares no token with the last turn: the score is 0/3
C24_WitnessDisjoint ==
  /\ Case3Tested(req[1])
  /\ req[1].similarity_ratio = [num |-> 0, den |-> 3]


Paths ==
  {"MATCH_FOUND", "NO_HISTORY_NO_MATCH", "HISTORY_NO_MATCH_CONTINUING",
   "HISTORY_NO_MATCH_NEW_TOPIC"}

\* request r is being served: its handler has returned a response whose
\* stream has not ended
BeingServed(rq) == rq.pc \notin {"idle", "done", "failed"}

\* C25: a request that completes ranking is handled by exactly one of the
\* four paths, chosen once: MATCH_FOUND exactly if the ranking result is not
\* empty; an empty table, or a table whose rows are all filtered out, leads
\* to a no-match path and never to an error
C25_ExactlyOnePath ==
  /\ [](\A r \in Reqs : (Ranked(r) /\ req[r].failure # "score") =>
          /\ req[r].path \in Paths
          /\ req[r].scored =
               Rank(ScoreRows(rows, req[r].query_emb, req[r].question).scored)
          /\ req[r].path = "MATCH_FOUND" <=> req[r].scored # <<>>)
  /\ [](\A r \in Reqs : (Ranked(r) /\ rows = WellFormedRows) =>
          req[r].failure = "")
  /\ [][\A r \in Reqs : BeingServed(req[r]) =>
          /\ req'[r].path = req[r].path
          /\ req'[r].scored = req[r].scored
          /\ req'[r].pc # "failed"]_vars

\* C25 witness: on the empty table, with saved turns, a request was handled
\* by a no-match path to the end of its stream
C25_Witness ==
  /\ rows = <<>>
  /\ Len(Turns(conversation_memory, "s1")) >= 4
  /\ req[1].path = "HISTORY_NO_MATCH_NEW_TOPIC"
  /\ req[1].pc = "done"

\* a table whose rows are all filtered out, and the continuing path
C25_WitnessFiltered ==
  /\ rows = <<R_30, R_20>>
  /\ req[1].scored = <<>>
  /\ req[1].path = "HISTORY_NO_MATCH_CONTINUING"
  /\ req[1].pc = "done"


\* C26: the history of an id is created, empty, by the first request that
\* carries the id, whatever the request ends in; it is never removed and
\* never replaced: the ids in memory only grow, the number of turns of an id
\* never decreases, and a history changes only by the append of a turn
C26_HistoryEntriesPersist ==
  /\ [](\A r \in Reqs : req[r].pc # "idle" =>
          req[r].id \in DOMAIN conversation_memory)
  /\ [][/\ DOMAIN conversation_memory \subseteq DOMAIN conversation_memory'
        /\ \A id \in DOMAIN conversation_memory' \ DOMAIN conversation_memory :
             /\ conversation_memory'[id] = <<>>
             /\ served' = served + 1
             /\ \E r \in Reqs : req'[r].id = id
        /\ \A id \in DOMAIN conversation_memory :
             LET old == conversation_memory[id]
                 new == conversation_memory'[id]
             IN  /\ Len(new) >= Len(old)
                 /\ new # old =>
                      /\ \E r \in Reqs : Saves(r) /\ req[r].id = id
                      /\ \/ new = Append(old, new[Len(new)])
                         \/ /\ Len(old) = 5
                            /\ new = Append(Tail(old), new[Len(new)])]_vars

\* C26 witness: a conversation of five turns saved a sixth, and a request of
\* a new id that ended in the refusal left an empty history for its id
C26_Witness ==
  /\ DOMAIN conversation_memory = {"s1", "s2"}
  /\ Len(conversation_memory["s1"]) = 5
  /\ conversation_memory["s1"][5].question = Q_XA
  /\ conversation_memory["s2"] = <<>>
  /\ req[1].id = "s2"
  /\ req[1].path = "NO_HISTORY_NO_MATCH"
  /\ req[1].pc = "done"


\* the text holds the text of an error-marker chunk
HoldsErrorMarker(text) ==
  \E marker \in ErrorMarkers : Contains(text, CleanAnswer(marker))

\* C27: a request whose generator call failed leaves the history unchanged:
\* no turn whose answer holds the error-marker text is committed, and no
\* later request gets an error marker as 'Previous answer' context
C27_NoErrorMarkerCommitted ==
  /\ \A id \in DOMAIN conversation_memory :
       \A i \in 1..Len(conversation_memory[id]) :
         ~HoldsErrorMarker(conversation_memory[id][i].answer)
  /\ \A r \in Reqs :
       /\ ~HoldsErrorMarker(req[r].prompt.last_answer)
       /\ \A i \in 1..Len(req[r].prompt.history) :
            ~HoldsErrorMarker(req[r].prompt.history[i].answer)

\* a later request got the error marker as the last answer of its prompt
ErrorMarkerInLaterPrompt ==
  \E r \in Reqs : HoldsErrorMarker(req[r].prompt.last_answer)


\* the handler of request r returns its response in this step
Dispatches(r) ==
  req[r].pc = "scoring" /\ req'[r].pc \notin {"scoring", "failed"}

\* the path and the prompt of request r, returned in this step, are those of
\* the ranking and the turns `turns`
DecidedFrom(r, turns) ==
  LET ranked == Rank(ScoreRows(rows, req[r].query_emb, req[r].question).scored)
  IN  /\ req'[r].path = Dispatch(ranked, turns, req[r].question)
      /\ req'[r].path = "MATCH_FOUND" =>
            req'[r].prompt = ArticlePrompt(turns, ranked, req[r].question)
      /\ req'[r].path = "HISTORY_NO_MATCH_CONTINUING" =>
            req'[r].prompt = Case3Prompt(turns[Len(turns)], req[r].question)

\* no update is lost: a save appends the turn of its request to the turns
\* that are there, so the turns are in the order of the saves
NoUpdateLost ==
  [][\A r \in LoopReqs : Saves(r) =>
       LET old == conversation_memory[req[r].id]
           new == conversation_memory'[req[r].id]
       IN  /\ new = DequeAppend(old, new[Len(new)])
           /\ new[Len(new)].question = req[r].question
           /\ new[Len(new)].answer = Normalized(Concat(ChunkTexts(req[r].out)))]_vars

\* C28: of two overlapping requests of one conversation that both save, no
\* update is lost, the turns are in the order in which the streams ended, and
\* the path and the prompt of each request are decided from the turns that
\* were committed before its handler ran
C28_OverlappingRequestsOfOneId ==
  /\ NoUpdateLost
  /\ [][\A r \in LoopReqs : Dispatches(r) =>
          DecidedFrom(r, req[r].history_context)]_vars

\* the prompt of the match path holds the turns committed when the handler
\* was entered; the path, and the prompt of the continuing path, are decided
\* from the turns committed when the handler makes its decision
DecidedFromTwoReadings ==
  [][\A r \in LoopReqs : Dispatches(r) =>
       LET ranked == Rank(ScoreRows(rows, req[r].query_emb, req[r].question).scored)
           live == conversation_memory[req[r].id]
       IN  /\ req'[r].path = Dispatch(ranked, live, req[r].question)
           /\ req'[r].path = "MATCH_FOUND" =>
                 req'[r].prompt =
                   ArticlePrompt(req[r].history_context, ranked, req[r].question)
           /\ req'[r].path = "HISTORY_NO_MATCH_CONTINUING" =>
                 req'[r].prompt = Case3Prompt(live[Len(live)], req[r].question)]_vars

\* both requests of the conversation saved, the one that arrived second
\* (while the first was streaming) first
BothTurnsSaved ==
  /\ req[1].pc = "done" /\ req[2].pc = "done"
  /\ req[1].commits = 1 /\ req[2].commits = 1
  /\ Len(conversation_memory["s1"]) = 2


\* C29: every database connection a request opened is closed when its
\* response stream has ended (or its handler has raised): with no request
\* being served no connection is open, however many requests were served
C29_ConnectionsClosed ==
  (\A r \in Reqs : ~BeingServed(req[r])) => connections = 0

\* a connection stays open for every request that fetched the articles
ConnectionsGrowWithRequests ==
  connections <= served /\
  ((\A r \in Reqs : req[r].pc = "done" /\ req[r].path # "NONE") => connections >= 1)


====
